---------------------------- MODULE Spec2Model ----------------------------
(***************************************************************************)
(* Chord inference of scripts/comprehensive_chord_extractor.py:            *)
(* ChordExtractor.midi_to_chords (windowing a note stream and naming each  *)
(* window), ChordExtractor.pitches_to_chord_name (template lookup with a   *)
(* root-note fallback) and the file loop of process_all_midis; the chord   *)
(* library lookup of scripts/chord_diagram_generator.py; midi_to_chords of *)
(* scripts/simple_chord_extractor.py; the tab lines of the website's       *)
(* TablatureGenerator (scripts/bimmuda_website.py);                        *)
(* get_simplified_chord_progression of scripts/process_mcgill_chords.py;   *)
(* analyze_tab_potential of scripts/tablature_generator.py.                *)
(*                                                                         *)
(* Note times are whole seconds.  The code divides the song length by the  *)
(* number of windows and adds the quotient up, in IEEE-754 doubles.  The   *)
(* model keeps a time as a pair <<a, e>> of integers that stands for       *)
(* (a * 2^51 + e) / (num_windows * 2^51) seconds: a is the exact value     *)
(* times num_windows, e the accumulated rounding error.  current_time and  *)
(* time_error hold the pair of the code's current_time.                    *)
(***************************************************************************)
EXTENDS Integers, Sequences, FiniteSets, TLC

VARIABLES
    self_chord_patterns, \* ChordExtractor: self.chord_patterns
    files,          \* process_all_midis: midi_files, the recordings to process
    processed,      \* process_all_midis: processed
    chord_results,  \* process_all_midis: chord_results, song id -> entry
    outcomes,       \* history: per processed file, what midi_to_chords computed
    pc,             \* position of the running midi_to_chords call
    all_notes,      \* midi_to_chords: all_notes
    song_length,    \* midi_to_chords: song_length
    num_windows,    \* midi_to_chords: num_windows
    current_time,   \* midi_to_chords: current_time * num_windows, without rounding
    time_error,     \* midi_to_chords: rounding error of current_time, see FloatAdd
    window_log,     \* history: time, window_notes and chord_name of each window so far
    chords,         \* midi_to_chords: chords
    unique_chords,  \* midi_to_chords: unique_chords
    result,         \* value returned by midi_to_chords
    error,          \* TRUE when the except branch of midi_to_chords ran
    pitches,        \* pitches_to_chord_name: argument
    chord_name,     \* pitches_to_chord_name: returned value
    rpc,            \* position of a direct pitches_to_chord_name call
    chord_progression,  \* generate_chord_diagrams_for_song: the chords of its argument
    chord_diagrams, \* generate_chord_diagrams_for_song: chord_diagrams
    dpc,            \* position of a generate_chord_diagrams_for_song call
    threads,        \* midi_to_chords calls running side by side: thread -> locals
    simple_file,    \* simple extractor, midi_to_chords: the recording of midi_file_path
    spc,            \* position of a call of the simple extractor's midi_to_chords
    simple_notes,   \* simple extractor, midi_to_chords: all_notes
    simple_time,    \* simple extractor, midi_to_chords: current_time
    simple_log,     \* history: time, window_notes and chord_name of each of its windows
    simple_chords,  \* simple extractor, midi_to_chords: chords
    simple_result,  \* value returned by the simple extractor's midi_to_chords
    tab_chords,     \* website, _create_tab_notation: chords
    display_chords, \* website, _create_tab_notation: display_chords
    string_idx,     \* website, _create_tab_notation: string_idx of the next pass
    tab_lines,      \* website, _create_tab_notation: the string lines of tab_lines
    tpc,            \* position of a _create_tab_notation call
    annotation,     \* get_simplified_chord_progression: chords
    entry_idx,      \* get_simplified_chord_progression: entries of chords read so far
    chord_sequence, \* get_simplified_chord_progression: chord_sequence
    last_chord,     \* get_simplified_chord_progression: last_chord
    simplified,     \* value returned by get_simplified_chord_progression
    mpc,            \* position of a get_simplified_chord_progression call
    progressions,   \* analyze_tab_potential: progressions, each as its list of chords
    song_idx,       \* analyze_tab_potential: progressions read so far
    tab_stats,      \* analyze_tab_potential: tab_stats
    raised,         \* analyze_tab_potential: the key of the KeyError raised, or None
    apc             \* position of an analyze_tab_potential call

extractVars == <<files, processed, chord_results, outcomes, pc, all_notes, song_length,
                 num_windows, current_time, time_error, window_log, chords,
                 unique_chords, result, error>>
resolveVars == <<pitches, chord_name, rpc>>
diagramVars == <<chord_progression, chord_diagrams, dpc>>
sharedVars == <<self_chord_patterns>>
threadVars == <<threads>>
simpleVars == <<simple_file, spc, simple_notes, simple_time, simple_log, simple_chords,
                simple_result>>
tabVars == <<tab_chords, display_chords, string_idx, tab_lines, tpc>>
mcgillVars == <<annotation, entry_idx, chord_sequence, last_chord, simplified, mpc>>
analyzeVars == <<progressions, song_idx, tab_stats, raised, apc>>
siteVars == <<simpleVars, tabVars, mcgillVars, analyzeVars>>
vars == <<extractVars, resolveVars, diagramVars, threadVars, sharedVars, siteVars>>

(***************************************************************************)
(* Bounds of the model.                                                    *)
(***************************************************************************)
\* longest note list of a small recording's harmonic instrument
MaxNotes == 3
\* longest rising-scale recording (one major triad per 2 s block)
MaxScale == 9
\* longest argument of a direct pitches_to_chord_name call
MaxPitches == 4
\* longest long recording, in seconds
MaxLength == 34
\* number of songs of the database a file name can match
MaxSongs == 2
\* longest chord progression handed to the diagram generator
MaxProgression == 2
\* number of midi_to_chords calls running side by side
NumThreads == 2

(***************************************************************************)
(* Python values.                                                          *)
(***************************************************************************)
None == "None"
IndexError == "IndexError"

Max(a, b) == IF a >= b THEN a ELSE b
Min(a, b) == IF a <= b THEN a ELSE b

\* the elements of a sequence, as a set
Range(s) == {s[i] : i \in 1..Len(s)}

\* s[:n]
Take(s, n) == SubSeq(s, 1, Min(n, Len(s)))

\* all sequences over S of length at most n
SeqsUpTo(S, n) == UNION {[1..k -> S] : k \in 0..n}

(***************************************************************************)
(* ChordExtractor.__init__: note_names and chord_patterns.                 *)
(***************************************************************************)
\* note_names with the five black keys spelled as flats
note_names_Flats == <<"C", "Db", "D", "Eb", "E", "F", "Gb", "G", "Ab", "A", "Bb", "B">>

note_names == <<"C", "C#", "D", "D#", "E", "F", "F#", "G", "G#", "A", "A#", "B">>

\* the items of the chord_patterns dict literal, in source order: the triads
triad_items == <<
    \* Major triads
    <<{0, 4, 7}, "C">>, <<{1, 5, 8}, "C#">>, <<{2, 6, 9}, "D">>,
    <<{3, 7, 10}, "D#">>, <<{4, 8, 11}, "E">>, <<{5, 9, 0}, "F">>,
    <<{6, 10, 1}, "F#">>, <<{7, 11, 2}, "G">>, <<{8, 0, 3}, "G#">>,
    <<{9, 1, 4}, "A">>, <<{10, 2, 5}, "A#">>, <<{11, 3, 6}, "B">>,
    \* Minor triads
    <<{0, 3, 7}, "Cm">>, <<{1, 4, 8}, "C#m">>, <<{2, 5, 9}, "Dm">>,
    <<{3, 6, 10}, "D#m">>, <<{4, 7, 11}, "Em">>, <<{5, 8, 0}, "Fm">>,
    <<{6, 9, 1}, "F#m">>, <<{7, 10, 2}, "Gm">>, <<{8, 11, 3}, "G#m">>,
    <<{9, 0, 4}, "Am">>, <<{10, 1, 5}, "A#m">>, <<{11, 2, 6}, "Bm">> >>

\* and the seventh chords
seventh_items == <<
    \* Major 7th chords
    <<{0, 4, 7, 11}, "Cmaj7">>, <<{1, 5, 8, 0}, "C#maj7">>, <<{2, 6, 9, 1}, "Dmaj7">>,
    <<{3, 7, 10, 2}, "D#maj7">>, <<{4, 8, 11, 3}, "Emaj7">>, <<{5, 9, 0, 4}, "Fmaj7">>,
    <<{6, 10, 1, 5}, "F#maj7">>, <<{7, 11, 2, 6}, "Gmaj7">>, <<{8, 0, 3, 7}, "G#maj7">>,
    <<{9, 1, 4, 8}, "Amaj7">>, <<{10, 2, 5, 9}, "A#maj7">>, <<{11, 3, 6, 10}, "Bmaj7">>,
    \* Dominant 7th chords
    <<{0, 4, 7, 10}, "C7">>, <<{1, 5, 8, 11}, "C#7">>, <<{2, 6, 9, 0}, "D7">>,
    <<{3, 7, 10, 1}, "D#7">>, <<{4, 8, 11, 2}, "E7">>, <<{5, 9, 0, 3}, "F7">>,
    <<{6, 10, 1, 4}, "F#7">>, <<{7, 11, 2, 5}, "G7">>, <<{8, 0, 3, 6}, "G#7">>,
    <<{9, 1, 4, 7}, "A7">>, <<{10, 2, 5, 8}, "A#7">>, <<{11, 3, 6, 9}, "B7">> >>

\* the literal with the C major key written a second time, for Cmaj7
chord_pattern_items_SharedKey ==
    triad_items \o <<<<{0, 4, 7}, "Cmaj7">>>> \o Tail(seventh_items)

\* the literal without its last family
chord_pattern_items_NoDominant == triad_items \o SubSeq(seventh_items, 1, 12)

\* all items of the literal
chord_pattern_items == triad_items \o seventh_items

\* a dict built from items: a key given twice keeps the value given last
DictOf(items) ==
    [k \in {items[i][1] : i \in 1..Len(items)} |->
        LET last == CHOOSE i \in 1..Len(items) :
                        /\ items[i][1] = k
                        /\ \A j \in 1..Len(items) : items[j][1] = k => j <= i
        IN  items[last][2]]

\* chord_patterns holding the triads only, as the simple extractor's table
chord_patterns_TriadsOnly == DictOf(SubSeq(chord_pattern_items, 1, 24))

chord_patterns == DictOf(chord_pattern_items)

\* NoteNameAt counting the list from 1
NoteNameAt_OffByOne(i) ==
    IF i \in -1..10 THEN note_names[i + 2]
    ELSE IF i \in -13..-2 THEN note_names[i + 14]
    ELSE IndexError

\* note_names[i] of a Python list of 12 elements: indices -12..11 are valid
NoteNameAt(i) ==
    IF i \in 0..11 THEN note_names[i + 1]
    ELSE IF i \in -12..-1 THEN note_names[i + 13]
    ELSE IndexError

(***************************************************************************)
(* ChordExtractor.pitches_to_chord_name.                                   *)
(***************************************************************************)
\* one pass of "for chord_size in [4, 3]": the name found, or None
TryChordSize(p, chord_size) ==
    IF Len(p) >= chord_size /\ Range(Take(p, chord_size)) \in DOMAIN self_chord_patterns
    THEN self_chord_patterns[Range(Take(p, chord_size))]
    ELSE None

\* pitches_to_chord_name with "for chord_size in [3, 4]"
pitches_to_chord_name_TriadFirst(p) ==
    IF Len(p) = 0 THEN None
    ELSE IF TryChordSize(p, 3) # None THEN TryChordSize(p, 3)
    ELSE IF TryChordSize(p, 4) # None THEN TryChordSize(p, 4)
    ELSE NoteNameAt(p[1])

\* pitches_to_chord_name without the fallback of line 119
pitches_to_chord_name_NoFallback(p) ==
    IF Len(p) = 0 THEN None
    ELSE IF TryChordSize(p, 4) # None THEN TryChordSize(p, 4)
    ELSE IF TryChordSize(p, 3) # None THEN TryChordSize(p, 3)
    ELSE None

\* pitches_to_chord_name with pitches[-chord_size:]
pitches_to_chord_name_LastElements(p) ==
    LET Last(n) == SubSeq(p, Len(p) - Min(n, Len(p)) + 1, Len(p))
        Try(n) == IF Len(p) >= n /\ Range(Last(n)) \in DOMAIN self_chord_patterns
                  THEN self_chord_patterns[Range(Last(n))]
                  ELSE None
    IN  IF Len(p) = 0 THEN None
        ELSE IF Try(4) # None THEN Try(4)
        ELSE IF Try(3) # None THEN Try(3)
        ELSE NoteNameAt(p[1])

pitches_to_chord_name(p) ==
    IF Len(p) = 0 THEN None
    ELSE IF TryChordSize(p, 4) # None THEN TryChordSize(p, 4)
    ELSE IF TryChordSize(p, 3) # None THEN TryChordSize(p, 3)
    ELSE NoteNameAt(p[1])


(***************************************************************************)
(* ChordExtractor.midi_to_chords: the literals of the code.                *)
(***************************************************************************)
MinWindows == 8
MaxWindows == 16
SecondsPerWindow == 2
MinWindowNotes == 3
TopPitches == 6
MaxUniqueChords == 8

(***************************************************************************)
(* ChordExtractor.midi_to_chords: the steps of the code as operators.      *)
(* A note is [pitch, start, end]; an instrument is [is_drum, notes]; a     *)
(* recording is [readable, instruments], readable = FALSE when             *)
(* pretty_midi.PrettyMIDI raises on the file.                              *)
(***************************************************************************)
RECURSIVE NonDrumNotes_AllInstruments(_)
\* NonDrumNotes without the is_drum test
NonDrumNotes_AllInstruments(instruments) ==
    IF instruments = <<>> THEN <<>>
    ELSE Head(instruments).notes \o NonDrumNotes_AllInstruments(Tail(instruments))

RECURSIVE NonDrumNotes(_)
\* "for instrument in midi_data.instruments: if not is_drum: extend"
NonDrumNotes(instruments) ==
    IF instruments = <<>> THEN <<>>
    ELSE (IF Head(instruments).is_drum THEN <<>> ELSE Head(instruments).notes)
         \o NonDrumNotes(Tail(instruments))

\* all_notes.sort(key=lambda x: x.start): stable, ascending
SortByStart(notes) ==
    LET n == Len(notes)
        Before(i, j) == \/ notes[i].start < notes[j].start
                        \/ notes[i].start = notes[j].start /\ i < j
        Rank(i) == Cardinality({j \in 1..n : Before(j, i)})
    IN  [k \in 1..n |-> notes[CHOOSE i \in 1..n : Rank(i) = k - 1]]

\* max(note.end for note in all_notes), of a non-empty list
SongLength(notes) ==
    CHOOSE e \in {notes[i].end : i \in 1..Len(notes)} :
        \A i \in 1..Len(notes) : notes[i].end <= e

\* NumWindows without the lower clamp
NumWindows_NoMinimum(T) == Min(MaxWindows, T \div SecondsPerWindow)

\* NumWindows without the upper clamp
NumWindows_NoMaximum(T) == Max(MinWindows, T \div SecondsPerWindow)

\* max(8, min(16, int(song_length / 2)))
NumWindows(T) == Max(MinWindows, Min(MaxWindows, T \div SecondsPerWindow))

(***************************************************************************)
(* The double arithmetic of lines 65 and 90.  With K = 2^51, a double in   *)
(* [2, 4) is a whole number of units 1/K, one in [4, 8) a multiple of 2    *)
(* units, and so on.  A quotient T / W of whole numbers that is not exact  *)
(* has W in 9..15 and lies in [2, 4).  Only remainders modulo small        *)
(* numbers are computed, never K itself.                                   *)
(***************************************************************************)
RECURSIVE Pow2Mod(_, _)
\* 2^n modulo m
Pow2Mod(n, m) ==
    IF n <= 20 THEN (2 ^ n) % m ELSE (Pow2Mod(20, m) * Pow2Mod(n - 20, m)) % m

\* line 65, window_size = song_length / num_windows: the error r of the
\* rounded quotient, W * window_size = (T * K + r) / K
SizeError(T, W) ==
    LET rho == (T * Pow2Mod(51, W)) % W
        floorIsEven == ((((T * Pow2Mod(51, 2 * W)) % (2 * W)) - rho) \div W) % 2 = 0
    IN  IF 2 * rho < W THEN -rho
        ELSE IF 2 * rho > W THEN W - rho
        ELSE IF floorIsEven THEN -rho ELSE W - rho

\* t1 < t2 for two times
TimeLess(t1, t2) == t1[1] < t2[1] \/ (t1[1] = t2[1] /\ t1[2] < t2[2])
\* t1 <= t2 for two times
TimeLessEq(t1, t2) == ~TimeLess(t2, t1)
\* a whole number of seconds as a time
Seconds(x, W) == <<x * W, 0>>

RECURSIVE Grain(_, _, _)
\* the spacing of the doubles around the time t, in units 1/K, from c seconds on
Grain(t, W, c) ==
    IF TimeLessEq(Seconds(c, W), t) THEN 2 * Grain(t, W, 2 * c) ELSE 1

\* line 90, current_time + window_size rounded to the nearest double, ties
\* to even; t is current_time, T the song length
FloatAdd(t, T, W) ==
    LET a == t[1] + T
        n == t[2] + SizeError(T, W)
        g == Grain(<<a, n>>, W, 4)
        \* the exact sum in units 1/K, modulo m
        SumMod(m) == ((((a % (W * m)) * Pow2Mod(51, W * m)) + n) % (W * m)) \div W
        low == SumMod(g)
        downIsEven == ((SumMod(2 * g) - low) \div g) % 2 = 0
    IN  IF low = 0 THEN <<a, n>>
        ELSE IF 2 * low < g THEN <<a, n - low * W>>
        ELSE IF 2 * low > g THEN <<a, n + (g - low) * W>>
        ELSE IF downIsEven THEN <<a, n - low * W>>
        ELSE <<a, n + (g - low) * W>>

\* InWindow without its first alternative: only notes that start in the window
InWindow_StartOnly(note, now, next, W) ==
    /\ TimeLessEq(now, Seconds(note.start, W))
    /\ TimeLess(Seconds(note.start, W), next)

\* InWindow with a note that ends at current_time still sounding
InWindow_ClosedEnd(note, now, next, W) ==
    \/ /\ TimeLessEq(Seconds(note.start, W), now)
       /\ TimeLessEq(now, Seconds(note.end, W))
    \/ /\ TimeLessEq(now, Seconds(note.start, W))
       /\ TimeLess(Seconds(note.start, W), next)

\* the test of lines 75-76; now is current_time, next is current_time + window_size
InWindow(note, now, next, W) ==
    \/ /\ TimeLessEq(Seconds(note.start, W), now)
       /\ TimeLess(now, Seconds(note.end, W))
    \/ /\ TimeLessEq(now, Seconds(note.start, W))
       /\ TimeLess(Seconds(note.start, W), next)

RECURSIVE WindowNotes_DoubleCount(_, _, _, _)
\* WindowNotes with one append for each alternative of the test that holds
WindowNotes_DoubleCount(notes, now, next, W) ==
    IF notes = <<>> THEN <<>>
    ELSE LET note == Head(notes)
             sounding == /\ TimeLessEq(Seconds(note.start, W), now)
                         /\ TimeLess(now, Seconds(note.end, W))
             starting == /\ TimeLessEq(now, Seconds(note.start, W))
                         /\ TimeLess(Seconds(note.start, W), next)
         IN  (IF sounding THEN <<note.pitch % 12>> ELSE <<>>)
             \o (IF starting THEN <<note.pitch % 12>> ELSE <<>>)
             \o WindowNotes_DoubleCount(Tail(notes), now, next, W)

RECURSIVE WindowNotes(_, _, _, _)
\* window_notes: pitch % 12 of every note that passes the test, in list order
WindowNotes(notes, now, next, W) ==
    IF notes = <<>> THEN <<>>
    ELSE (IF InWindow(Head(notes), now, next, W) THEN <<Head(notes).pitch % 12>> ELSE <<>>)
         \o WindowNotes(Tail(notes), now, next, W)

\* MostCommon with equal counts in order of pitch class
MostCommon_TiesByPitch(window_notes, n) ==
    LET D == Range(window_notes)
        Count(x) == Cardinality({i \in 1..Len(window_notes) : window_notes[i] = x})
        Before(x, y) == \/ Count(x) > Count(y)
                        \/ Count(x) = Count(y) /\ x < y
        Rank(x) == Cardinality({y \in D : Before(y, x)})
        ranked == [k \in 1..Cardinality(D) |-> CHOOSE x \in D : Rank(x) = k - 1]
    IN  Take(ranked, n)

\* [pitch for pitch, count in Counter(window_notes).most_common(n)]:
\* descending count, equal counts in order of first occurrence
MostCommon(window_notes, n) ==
    LET D == Range(window_notes)
        Count(x) == Cardinality({i \in 1..Len(window_notes) : window_notes[i] = x})
        First(x) == CHOOSE i \in 1..Len(window_notes) :
                        /\ window_notes[i] = x
                        /\ \A j \in 1..(i - 1) : window_notes[j] # x
        Before(x, y) == \/ Count(x) > Count(y)
                        \/ Count(x) = Count(y) /\ First(x) < First(y)
        Rank(x) == Cardinality({y \in D : Before(y, x)})
        ranked == [k \in 1..Cardinality(D) |-> CHOOSE x \in D : Rank(x) = k - 1]
    IN  Take(ranked, n)

\* WindowChord asking for 2 notes, as the simple extractor does
WindowChord_TwoNotes(window_notes) ==
    IF Len(window_notes) >= 2
    THEN LET chord_pitches == MostCommon(window_notes, TopPitches)
         IN  IF chord_pitches # <<>> THEN pitches_to_chord_name(chord_pitches)
             ELSE None
    ELSE None

\* lines 79-83: chord_pitches of one window, empty when the window is skipped
ChordPitches(window_notes) ==
    IF Len(window_notes) >= MinWindowNotes
    THEN MostCommon(window_notes, TopPitches)
    ELSE <<>>

\* lines 79-88: the chord name of one window, None when the window names none
WindowChord(window_notes) ==
    IF Len(window_notes) >= MinWindowNotes
    THEN LET chord_pitches == MostCommon(window_notes, TopPitches)
         IN  IF chord_pitches # <<>> THEN pitches_to_chord_name(chord_pitches)
             ELSE None
    ELSE None

\* AppendChord without the comparison with chords[-1]
AppendChord_NoDedup(cs, name) ==
    IF name # None THEN Append(cs, name) ELSE cs

\* lines 87-88: append unless None or equal to the last appended name
AppendChord(cs, name) ==
    IF name # None /\ (cs = <<>> \/ name # cs[Len(cs)]) THEN Append(cs, name) ELSE cs

RECURSIVE UniqueLoop_NoMembership(_, _, _, _)
\* UniqueLoop without the "not in unique_chords" test
UniqueLoop_NoMembership(cs, i, unique, limit) ==
    IF i > Len(cs) THEN unique
    ELSE LET kept == Append(unique, cs[i])
         IN  IF Len(kept) >= limit THEN kept
             ELSE UniqueLoop_NoMembership(cs, i + 1, kept, limit)

RECURSIVE UniqueLoop_LateBreak(_, _, _, _)
\* UniqueLoop leaving the loop on "> limit" instead of ">= limit"
UniqueLoop_LateBreak(cs, i, unique, limit) ==
    IF i > Len(cs) THEN unique
    ELSE LET kept == IF cs[i] \notin Range(unique) THEN Append(unique, cs[i])
                     ELSE unique
         IN  IF Len(kept) > limit THEN kept
             ELSE UniqueLoop_LateBreak(cs, i + 1, kept, limit)

RECURSIVE UniqueLoop(_, _, _, _)
\* lines 94-98 from the i-th chord on, unique holding the names kept so far
UniqueLoop(cs, i, unique, limit) ==
    IF i > Len(cs) THEN unique
    ELSE LET kept == IF cs[i] \notin Range(unique) THEN Append(unique, cs[i])
                     ELSE unique
         IN  IF Len(kept) >= limit THEN kept
             ELSE UniqueLoop(cs, i + 1, kept, limit)

\* lines 93-98, the literal 8 being the argument limit
\* the final loop without its break, then the last limit names
UniqueChords_KeepLast(cs, limit) ==
    LET all == UniqueLoop(cs, 1, <<>>, Len(cs) + 1)  IN
    SubSeq(all, Len(all) - Min(limit, Len(all)) + 1, Len(all))

UniqueChords(cs, limit) == UniqueLoop(cs, 1, <<>>, limit)

RECURSIVE Join(_)
\* " - ".join(names)
Join(names) ==
    IF names = <<>> THEN ""
    ELSE IF Len(names) = 1 THEN names[1]
    ELSE names[1] \o " - " \o Join(Tail(names))

\* line 100
ReturnValue(unique) == IF unique # <<>> THEN Join(unique) ELSE None

(***************************************************************************)
(* The recordings the model processes.                                     *)
(***************************************************************************)
Note(p, s, e) == [pitch |-> p, start |-> s, end |-> e]
Instrument(d, ns) == [is_drum |-> d, notes |-> ns]
Recording(ins) == [readable |-> TRUE, instruments |-> ins]
Unreadable == [readable |-> FALSE, instruments |-> <<>>]

\* small recordings: one harmonic instrument, any note list over SmallNotes
SmallPitches == {60, 64, 67, 72}
SmallSpans == {<<0, 4>>, <<2, 4>>, <<0, 1>>}
SmallNotes == {Note(p, sp[1], sp[2]) : p \in SmallPitches, sp \in SmallSpans}
SmallRecordings ==
    {Recording(<<Instrument(FALSE, ns)>>) : ns \in SeqsUpTo(SmallNotes, MaxNotes)}

\* block recordings: one triad after the other, each held for d seconds
CMajor == <<60, 64, 67>>
GMajor == <<67, 71, 62>>
BlockNotes(triads, d) ==
    [k \in 1..(3 * Len(triads)) |->
        LET i == (k - 1) \div 3  IN
        Note(triads[i + 1][((k - 1) % 3) + 1], i * d, (i + 1) * d)]
BlockRecording(triads, d) == Recording(<<Instrument(FALSE, BlockNotes(triads, d))>>)
\* alternating C and G, 1 s each, for n seconds
Alternating(n) == BlockRecording([i \in 1..n |-> IF i % 2 = 1 THEN CMajor ELSE GMajor], 1)
\* C and G blocks of 1 s in any order, 8 of them
BlockRecordings == {BlockRecording(ts, 1) : ts \in [1..8 -> {CMajor, GMajor}]}
\* the major triads on C, C#, D, ... one after the other, 2 s each
ScaleRecording(n) == BlockRecording([i \in 1..n |-> <<59 + i, 63 + i, 66 + i>>], 2)
ScaleRecordings == {ScaleRecording(n) : n \in 1..MaxScale}

\* a C major triad held for 4 s
SustainedCMajor ==
    Recording(<<Instrument(FALSE, <<Note(60, 0, 4), Note(64, 0, 4), Note(67, 0, 4)>>)>>)

\* long recordings, T seconds for T in MinLength..MaxLength: a C major triad
\* held to the end with a B flat held for q seconds, and alternating blocks
MinLength == 17
HeldRecording(T, q) ==
    Recording(<<Instrument(FALSE, <<Note(60, 0, T), Note(64, 0, T), Note(67, 0, T),
                                    Note(70, 0, q)>>)>>)
LongRecordings ==
    {HeldRecording(T, T - d) : T \in MinLength..MaxLength, d \in {0, 1}}
        \cup {Alternating(T) : T \in MinLength..MaxLength}

\* clusters: notes given as <<pitch, start>>, all held to second 4
Cluster(ps) ==
    Recording(<<Instrument(FALSE, [k \in 1..Len(ps) |-> Note(ps[k][1], ps[k][2], 4)])>>)
ClusterRecordings ==
    {Cluster(<<<<71, 0>>, <<69, 0>>, <<67, 0>>, <<65, 0>>, <<64, 0>>, <<62, 0>>, <<60, 0>>,
               <<61, 0>>>>),
     Cluster(<<<<62, 1>>, <<60, 0>>, <<64, 0>>, <<65, 1>>, <<67, 0>>, <<69, 1>>, <<71, 1>>,
               <<72, 1>>, <<76, 0>>, <<74, 1>>>>),
     Cluster(<<<<60, 0>>, <<64, 0>>, <<67, 0>>, <<59, 1>>, <<71, 1>>, <<62, 1>>, <<74, 2>>,
               <<86, 2>>, <<65, 2>>, <<69, 3>>, <<70, 3>>, <<82, 3>>, <<58, 3>>>>),
     Cluster(<<<<61, 0>>, <<62, 0>>, <<63, 0>>, <<66, 2>>, <<78, 2>>>>)}

\* drum instruments: one ending after every harmonic note, one playing a D major triad
LongDrum == Instrument(TRUE, <<Note(36, 0, 40)>>)
TriadDrum == Instrument(TRUE, <<Note(50, 0, 4), Note(54, 0, 4), Note(57, 0, 4)>>)
DrumKits == {LongDrum, TriadDrum}
DrumOnlyRecordings ==
    {Recording(<<k>>) : k \in DrumKits} \cup {Recording(<<LongDrum, TriadDrum>>)}
EmptyRecordings == {Recording(<<>>), Recording(<<Instrument(FALSE, <<>>)>>)}

\* r with a drum instrument put before or after its instruments
WithDrums(r, kit, front) ==
    Recording(IF front THEN <<kit>> \o r.instruments ELSE r.instruments \o <<kit>>)

\* recordings whose drum variants are processed next to them
PairPitches == {60, 64, 67}
PairSpans == {<<0, 4>>, <<2, 4>>}
PairNotes == {Note(p, sp[1], sp[2]) : p \in PairPitches, sp \in PairSpans}
PairBases ==
    {Recording(<<Instrument(FALSE, ns)>>) : ns \in SeqsUpTo(PairNotes, MaxNotes)}
        \cup {Alternating(8)} \cup ScaleRecordings

\* a C major triad whose root is listed first and starts last
LateRoot ==
    Recording(<<Instrument(FALSE, <<Note(60, 2, 4), Note(64, 0, 4), Note(67, 0, 4)>>)>>)
\* recordings that are processed twice, or next to a file that cannot be read
RepeatBases ==
    ScaleRecordings \cup {Alternating(8), SustainedCMajor, LateRoot, Unreadable}

HarmonicRecordings ==
    SmallRecordings \cup BlockRecordings \cup ScaleRecordings \cup LongRecordings
        \cup ClusterRecordings
FileLists ==
    {<<r>> : r \in HarmonicRecordings \cup DrumOnlyRecordings \cup EmptyRecordings
                   \cup {Unreadable}}
    \cup {<<r, WithDrums(r, kit, front)>> :
              r \in PairBases, kit \in DrumKits, front \in BOOLEAN}
    \* the same recording twice
    \cup {<<r, r>> : r \in RepeatBases}
    \* a file that cannot be read before or after another file
    \cup {<<Unreadable, r>> : r \in RepeatBases}
    \cup {<<r, Unreadable>> : r \in RepeatBases}

(***************************************************************************)
(* process_all_midis calling midi_to_chords on each file in turn.          *)
(***************************************************************************)
NoCall ==
    /\ all_notes = <<>>
    /\ song_length = 0
    /\ num_windows = 0
    /\ current_time = 0
    /\ time_error = 0
    /\ window_log = <<>>
    /\ chords = <<>>
    /\ unique_chords = <<>>
    /\ result = None
    /\ error = FALSE

NoResolve ==
    /\ pitches = <<>>
    /\ chord_name = None
    /\ rpc = "idle"

NoDiagram ==
    /\ chord_progression = <<>>
    /\ chord_diagrams = <<>>
    /\ dpc = "idle"

NoThreads == threads = <<>>

NoSimple ==
    /\ simple_file = [readable |-> FALSE, instruments |-> <<>>]
    /\ spc = "idle"
    /\ simple_notes = <<>>
    /\ simple_time = 0
    /\ simple_log = <<>>
    /\ simple_chords = <<>>
    /\ simple_result = None

NoTab ==
    /\ tab_chords = <<>>
    /\ display_chords = <<>>
    /\ string_idx = 0
    /\ tab_lines = <<>>
    /\ tpc = "idle"

NoMcGill ==
    /\ annotation = <<>>
    /\ entry_idx = 0
    /\ chord_sequence = <<>>
    /\ last_chord = None
    /\ simplified = None
    /\ mpc = "idle"

\* tab_stats as line 273 builds it for n progressions
NewTabStats(n) ==
    [total_songs |-> n, can_create_tabs |-> 0, partial_tabs |-> 0, no_tabs |-> 0,
     beginner_friendly |-> 0, intermediate |-> 0, advanced |-> 0,
     common_chord_combinations |-> <<>>]

NoAnalyze ==
    /\ progressions = <<>>
    /\ song_idx = 0
    /\ tab_stats = NewTabStats(0)
    /\ raised = None
    /\ apc = "idle"

\* none of the other scripts is running
NoSite == NoSimple /\ NoTab /\ NoMcGill /\ NoAnalyze

\* self.chord_patterns after __init__
NewExtractor == self_chord_patterns = chord_patterns

\* an empty dict
EmptyDict == [k \in {} |-> None]

Init ==
    /\ NewExtractor
    /\ files \in FileLists
    /\ processed = 0
    /\ chord_results = EmptyDict
    /\ outcomes = <<>>
    /\ pc = "idle"
    /\ NoCall
    /\ NoResolve
    /\ NoDiagram
    /\ NoThreads
    /\ NoSite

\* lines 250-255: the next file is taken and midi_to_chords is entered
Call ==
    /\ pc = "idle"
    /\ processed < Len(files)
    /\ processed' = processed + 1
    /\ pc' = "load"
    /\ all_notes' = <<>>
    /\ song_length' = 0
    /\ num_windows' = 0
    /\ current_time' = 0
    /\ time_error' = 0
    /\ window_log' = <<>>
    /\ chords' = <<>>
    /\ unique_chords' = <<>>
    /\ result' = None
    /\ error' = FALSE
    /\ UNCHANGED <<files, chord_results, outcomes, resolveVars, diagramVars,
                   threadVars, sharedVars, siteVars>>

\* LoadFail without the try: the exception leaves midi_to_chords and the loop
LoadFail_Raises ==
    /\ pc = "load"
    /\ ~files[processed].readable
    /\ error' = TRUE
    /\ pc' = "raised"
    /\ UNCHANGED <<files, processed, chord_results, outcomes, all_notes, song_length,
                   num_windows, current_time, time_error, window_log, chords,
                   unique_chords, result, resolveVars, diagramVars, threadVars,
                   sharedVars, siteVars>>

\* lines 48, 102-104: PrettyMIDI raises, the except branch returns None
LoadFail ==
    /\ pc = "load"
    /\ ~files[processed].readable
    /\ error' = TRUE
    /\ result' = None
    /\ pc' = "returned"
    /\ UNCHANGED <<files, processed, chord_results, outcomes, all_notes,
                   song_length, num_windows,
                   current_time, time_error, window_log, chords, unique_chords,
                   resolveVars, diagramVars, threadVars, sharedVars, siteVars>>

\* lines 48-57: no note of a non-drum instrument, None is returned
LoadEmpty ==
    /\ pc = "load"
    /\ files[processed].readable
    /\ NonDrumNotes(files[processed].instruments) = <<>>
    /\ result' = None
    /\ pc' = "returned"
    /\ UNCHANGED <<files, processed, chord_results, outcomes, all_notes,
                   song_length, num_windows,
                   current_time, time_error, window_log, chords, unique_chords, error,
                   resolveVars, diagramVars, threadVars, sharedVars, siteVars>>

\* Load taking the song length over the notes of every instrument, drums included
Load_DrumLength ==
    /\ pc = "load"
    /\ files[processed].readable
    /\ NonDrumNotes(files[processed].instruments) # <<>>
    /\ all_notes' = SortByStart(NonDrumNotes(files[processed].instruments))
    /\ song_length' = SongLength(NonDrumNotes_AllInstruments(files[processed].instruments))
    /\ num_windows' = NumWindows(song_length')
    /\ chords' = <<>>
    /\ current_time' = 0
    /\ time_error' = 0
    /\ pc' = "window"
    /\ UNCHANGED <<files, processed, chord_results, outcomes, window_log,
                   unique_chords, result,
                   error, resolveVars, diagramVars, threadVars, sharedVars, siteVars>>

\* Load sorting each instrument's own note list in place
Load_SortInPlace ==
    /\ pc = "load"
    /\ files[processed].readable
    /\ NonDrumNotes(files[processed].instruments) # <<>>
    /\ all_notes' = SortByStart(NonDrumNotes(files[processed].instruments))
    /\ LET ins == files[processed].instruments
           sorted == [i \in 1..Len(ins) |-> Instrument(ins[i].is_drum, SortByStart(ins[i].notes))]
       IN  files' = [files EXCEPT ![processed] = Recording(sorted)]
    /\ song_length' = SongLength(all_notes')
    /\ num_windows' = NumWindows(song_length')
    /\ chords' = <<>>
    /\ current_time' = 0
    /\ time_error' = 0
    /\ pc' = "window"
    /\ UNCHANGED <<processed, chord_results, outcomes, window_log, unique_chords, result,
                   error, resolveVars, diagramVars, threadVars, sharedVars, siteVars>>

\* lines 48-68: the notes are collected and sorted, the windows are laid out
Load ==
    /\ pc = "load"
    /\ files[processed].readable
    /\ NonDrumNotes(files[processed].instruments) # <<>>
    /\ all_notes' = SortByStart(NonDrumNotes(files[processed].instruments))
    /\ song_length' = SongLength(all_notes')
    /\ num_windows' = NumWindows(song_length')
    /\ chords' = <<>>
    /\ current_time' = 0
    /\ time_error' = 0
    /\ pc' = "window"
    /\ UNCHANGED <<files, processed, chord_results, outcomes, window_log,
                   unique_chords, result,
                   error, resolveVars, diagramVars, threadVars, sharedVars, siteVars>>

\* lines 70-90: one pass of the while loop
Window ==
    /\ pc = "window"
    /\ TimeLess(<<current_time, time_error>>, Seconds(song_length, num_windows))
    /\ LET now == <<current_time, time_error>>
           next == FloatAdd(now, song_length, num_windows)
           window_notes == WindowNotes(all_notes, now, next, num_windows)
           name == WindowChord(window_notes)
       IN  /\ chords' = AppendChord(chords, name)
           /\ window_log' = Append(window_log,
                                   [time |-> current_time,
                                    time_error |-> time_error,
                                    window_notes |-> window_notes,
                                    chord_pitches |-> ChordPitches(window_notes),
                                    chord_name |-> name,
                                    appended |-> chords' # chords])
           /\ current_time' = next[1]
           /\ time_error' = next[2]
    /\ UNCHANGED <<files, processed, chord_results, outcomes, pc, all_notes, song_length,
                   num_windows, unique_chords, result, error, resolveVars,
                   diagramVars, threadVars, sharedVars, siteVars>>

\* lines 70, 92-100: the loop is left, the unique chords are returned
Finish ==
    /\ pc = "window"
    /\ ~TimeLess(<<current_time, time_error>>, Seconds(song_length, num_windows))
    /\ unique_chords' = UniqueChords(chords, MaxUniqueChords)
    /\ result' = ReturnValue(unique_chords')
    /\ pc' = "returned"
    /\ UNCHANGED <<files, processed, chord_results, outcomes, all_notes,
                   song_length, num_windows,
                   current_time, time_error, window_log, chords, error,
                   resolveVars, diagramVars, threadVars, sharedVars, siteVars>>

\* the values match_midi_to_songs can return: no match, or the tuple of a
\* song of the database, of which the model keeps the song_id
SongIds == 1..MaxSongs
NoMatch == <<>>
SongMatches == {NoMatch} \cup {<<song_id>> : song_id \in SongIds}

\* "if chords:" of a returned value
Truthy(value) == value # None /\ value # ""

\* lines 261-268: chord_results[song_id] = {..., 'chords': chords, 'midi_file': midi_file}
SetItem(dict, key, value) ==
    [k \in DOMAIN dict \cup {key} |-> IF k = key THEN value ELSE dict[k]]

\* lines 255-275: process_all_midis receives the value midi_to_chords
\* returned and, if it is truthy and the file matches a song, stores it
Return ==
    /\ pc = "returned"
    /\ outcomes' = Append(outcomes,
                          [song_length |-> song_length,
                           num_windows |-> num_windows,
                           unique_chords |-> unique_chords,
                           result |-> result,
                           error |-> error])
    /\ IF Truthy(result)
       THEN \E song_match \in SongMatches :
                chord_results' =
                    IF song_match # NoMatch
                    THEN SetItem(chord_results, song_match[1],
                                 [chords |-> result, midi_file |-> processed])
                    ELSE chord_results
       ELSE chord_results' = chord_results
    /\ pc' = "idle"
    /\ UNCHANGED <<files, processed, all_notes, song_length, num_windows,
                   current_time, time_error, window_log, chords, unique_chords,
                   result, error, resolveVars, diagramVars, threadVars, sharedVars, siteVars>>

Next ==
    \/ Call
    \/ LoadFail
    \/ LoadEmpty
    \/ Load
    \/ Window
    \/ Finish
    \/ Return

Spec == Init /\ [][Next]_vars

(***************************************************************************)
(* pitches_to_chord_name called directly on any short pitch-class list.    *)
(***************************************************************************)
PitchClasses == 0..11

\* lists longer than the largest chord size: four pitch classes of a few,
\* followed by more
LongPitchLists ==
    {p \o q : p \in [1..4 -> {0, 3, 4, 7, 10, 11}],
              q \in {<<1>>, <<7>>, <<2, 5>>, <<0, 4>>, <<4, 7, 11>>}}

InitResolve ==
    /\ NewExtractor
    /\ files = <<>>
    /\ processed = 0
    /\ chord_results = EmptyDict
    /\ outcomes = <<>>
    /\ pc = "idle"
    /\ NoCall
    /\ pitches \in SeqsUpTo(PitchClasses, MaxPitches) \cup LongPitchLists
    /\ chord_name = None
    /\ rpc = "call"
    /\ NoDiagram
    /\ NoThreads
    /\ NoSite

ResolveCall ==
    /\ rpc = "call"
    /\ chord_name' = pitches_to_chord_name(pitches)
    /\ rpc' = "returned"
    /\ UNCHANGED <<pitches, extractVars, diagramVars, threadVars, sharedVars, siteVars>>

NextResolve == ResolveCall

SpecResolve == InitResolve /\ [][NextResolve]_vars

(***************************************************************************)
(* scripts/chord_diagram_generator.py: the chord library and               *)
(* ChordDiagramGenerator.generate_chord_diagrams_for_song, which looks up  *)
(* a fingering for each chord of a progression that midi_to_chords         *)
(* returned.  A fingering is kept as the library key it is stored under;   *)
(* a progression is kept as the list of names that split(' - ') gives.     *)
(***************************************************************************)
\* the keys of the chord_library dict literal
chord_library == {
    \* Major chords
    "C", "D", "E", "F", "G", "A", "B",
    \* Minor chords
    "Am", "Bm", "Cm", "Dm", "Em", "Fm", "Gm",
    \* Seventh chords
    "C7", "D7", "E7", "G7", "A7", "B7",
    \* Major 7th chords
    "Cmaj7", "Dmaj7", "Emaj7", "Fmaj7", "Gmaj7", "Amaj7", "Bmaj7",
    \* Minor 7th chords
    "Am7", "Bm7", "Cm7", "Dm7", "Em7", "Fm7", "Gm7",
    \* Sharp/Flat chords (using most common fingerings)
    "A#", "Bb", "A#m", "Bbm", "A#7", "Bb7", "A#maj7", "Bbmaj7",
    "C#", "Db", "C#m", "Dbm", "C#7", "Db7", "C#maj7", "Dbmaj7",
    "D#", "Eb", "D#m", "Ebm", "D#7", "Eb7", "D#maj7", "Ebmaj7",
    "F#", "Gb", "F#m", "Gbm", "F#7", "Gb7", "F#maj7", "Gbmaj7",
    "G#", "Ab", "G#m", "Abm", "G#7", "Ab7", "G#maj7", "Abmaj7" }

\* the items of the chord_aliases dict literal
chord_aliases == <<
    <<"A#", "Bb">>, <<"A#m", "Bbm">>, <<"A#7", "Bb7">>, <<"A#maj7", "Bbmaj7">>,
    <<"C#", "Db">>, <<"C#m", "Dbm">>, <<"C#7", "Db7">>, <<"C#maj7", "Dbmaj7">>,
    <<"D#", "Eb">>, <<"D#m", "Ebm">>, <<"D#7", "Eb7">>, <<"D#maj7", "Ebmaj7">>,
    <<"F#", "Gb">>, <<"F#m", "Gbm">>, <<"F#7", "Gb7">>, <<"F#maj7", "Gbmaj7">>,
    <<"G#", "Ab">>, <<"G#m", "Abm">>, <<"G#7", "Ab7">>, <<"G#maj7", "Abmaj7">> >>

\* "if chord in self.chord_aliases: chord = self.chord_aliases[chord]"
Alias(chord) ==
    IF \E i \in 1..Len(chord_aliases) : chord_aliases[i][1] = chord
    THEN chord_aliases[CHOOSE i \in 1..Len(chord_aliases) : chord_aliases[i][1] = chord][2]
    ELSE chord

\* normalize_chord_name of a name without surrounding whitespace
normalize_chord_name(chord) ==
    LET name == Alias(chord)  IN
    IF name \in chord_library THEN name
    ELSE IF name \o "maj" \in chord_library THEN name \o "maj"
    \* name.endswith('maj') and name[:-3] in self.chord_library
    ELSE IF \E key \in chord_library : name = key \o "maj"
    THEN CHOOSE key \in chord_library : name = key \o "maj"
    ELSE None

\* get_chord_data: the library entry of the normalized name, or None
get_chord_data(name) ==
    LET normalized == normalize_chord_name(name)  IN
    IF normalized # None /\ normalized \in chord_library
    THEN normalized
    ELSE None

\* every name midi_to_chords can put into a progression: the template names
\* and the root labels
EmittedChordNames ==
    {chord_pattern_items[i][2] : i \in 1..Len(chord_pattern_items)} \cup Range(note_names)

Progressions == SeqsUpTo(EmittedChordNames, MaxProgression)

InitDiagram ==
    /\ NewExtractor
    /\ files = <<>>
    /\ processed = 0
    /\ chord_results = EmptyDict
    /\ outcomes = <<>>
    /\ pc = "idle"
    /\ NoCall
    /\ NoResolve
    /\ chord_progression \in Progressions
    /\ chord_diagrams = <<>>
    /\ dpc = "call"
    /\ NoThreads
    /\ NoSite

\* lines 190-191: "if not chord_progression: return []"
DiagramNothing ==
    /\ dpc = "call"
    /\ chord_progression = <<>>
    /\ dpc' = "returned"
    /\ UNCHANGED <<chord_progression, chord_diagrams, extractVars, resolveVars,
                   threadVars, sharedVars, siteVars>>

\* lines 193-194: the progression is split and the loop is entered
DiagramSplit ==
    /\ dpc = "call"
    /\ chord_progression # <<>>
    /\ dpc' = "loop"
    /\ UNCHANGED <<chord_progression, chord_diagrams, extractVars, resolveVars,
                   threadVars, sharedVars, siteVars>>

\* lines 196-211: one pass of the loop, a diagram or a placeholder is appended
DiagramChord ==
    /\ dpc = "loop"
    /\ Len(chord_diagrams) < Len(chord_progression)
    /\ LET chord == chord_progression[Len(chord_diagrams) + 1]
           chord_data == get_chord_data(chord)
       IN  chord_diagrams' =
               Append(chord_diagrams,
                      [chord_name |-> chord,
                       diagram_data |-> chord_data,
                       missing |-> chord_data = None])
    /\ UNCHANGED <<chord_progression, dpc, extractVars, resolveVars,
                   threadVars, sharedVars, siteVars>>

\* line 213: return chord_diagrams
DiagramReturn ==
    /\ dpc = "loop"
    /\ Len(chord_diagrams) = Len(chord_progression)
    /\ dpc' = "returned"
    /\ UNCHANGED <<chord_progression, chord_diagrams, extractVars, resolveVars,
                   threadVars, sharedVars, siteVars>>

NextDiagram ==
    \/ DiagramNothing
    \/ DiagramSplit
    \/ DiagramChord
    \/ DiagramReturn

SpecDiagram == InitDiagram /\ [][NextDiagram]_vars

(***************************************************************************)
(* midi_to_chords called from several threads on one ChordExtractor, one   *)
(* recording each.  A thread's locals are a record; the steps are those of *)
(* the single call above, taken by any thread in any order.  All threads   *)
(* read self.chord_patterns.                                               *)
(***************************************************************************)
Threads == 1..NumThreads

ThreadRecordings ==
    {Alternating(8), HeldRecording(23, 22), Unreadable, Recording(<<LongDrum>>)}

\* the locals of a call that has just been entered
Entered(midi_file) ==
    [midi_file |-> midi_file, pc |-> "load", all_notes |-> <<>>, song_length |-> 0,
     num_windows |-> 0, current_time |-> 0, time_error |-> 0, chords |-> <<>>,
     unique_chords |-> <<>>, result |-> None, error |-> FALSE]

InitThreads ==
    /\ NewExtractor
    /\ files = <<>>
    /\ processed = 0
    /\ chord_results = EmptyDict
    /\ outcomes = <<>>
    /\ pc = "idle"
    /\ NoCall
    /\ NoResolve
    /\ NoDiagram
    /\ threads \in [Threads -> {Entered(r) : r \in ThreadRecordings}]
    /\ NoSite

\* lines 48, 102-104 in thread t
ThreadLoadFail(t) ==
    /\ threads[t].pc = "load"
    /\ ~threads[t].midi_file.readable
    /\ threads' = [threads EXCEPT ![t].result = None, ![t].error = TRUE,
                                  ![t].pc = "returned"]
    /\ UNCHANGED <<extractVars, resolveVars, diagramVars, sharedVars, siteVars>>

\* lines 48-57 in thread t
ThreadLoadEmpty(t) ==
    /\ threads[t].pc = "load"
    /\ threads[t].midi_file.readable
    /\ NonDrumNotes(threads[t].midi_file.instruments) = <<>>
    /\ threads' = [threads EXCEPT ![t].result = None, ![t].pc = "returned"]
    /\ UNCHANGED <<extractVars, resolveVars, diagramVars, sharedVars, siteVars>>

\* lines 48-68 in thread t
ThreadLoad(t) ==
    /\ threads[t].pc = "load"
    /\ threads[t].midi_file.readable
    /\ NonDrumNotes(threads[t].midi_file.instruments) # <<>>
    /\ LET notes == SortByStart(NonDrumNotes(threads[t].midi_file.instruments))  IN
       threads' = [threads EXCEPT ![t].all_notes = notes,
                                  ![t].song_length = SongLength(notes),
                                  ![t].num_windows = NumWindows(SongLength(notes)),
                                  ![t].chords = <<>>,
                                  ![t].current_time = 0,
                                  ![t].time_error = 0,
                                  ![t].pc = "window"]
    /\ UNCHANGED <<extractVars, resolveVars, diagramVars, sharedVars, siteVars>>

\* ThreadWindow with one chords list for all threads
ThreadWindow_SharedChords(t) ==
    /\ threads[t].pc = "window"
    /\ TimeLess(<<threads[t].current_time, threads[t].time_error>>,
                Seconds(threads[t].song_length, threads[t].num_windows))
    /\ LET my == threads[t]
           now == <<my.current_time, my.time_error>>
           next == FloatAdd(now, my.song_length, my.num_windows)
           name == WindowChord(WindowNotes(my.all_notes, now, next, my.num_windows))
           shared == AppendChord(my.chords, name)
       IN  threads' = [u \in Threads |->
                          IF u = t
                          THEN [my EXCEPT !.chords = shared,
                                          !.current_time = next[1],
                                          !.time_error = next[2]]
                          ELSE [threads[u] EXCEPT !.chords = shared]]
    /\ UNCHANGED <<extractVars, resolveVars, diagramVars, sharedVars, siteVars>>

\* lines 70-90 in thread t: one pass of the while loop
ThreadWindow(t) ==
    /\ threads[t].pc = "window"
    /\ TimeLess(<<threads[t].current_time, threads[t].time_error>>,
                Seconds(threads[t].song_length, threads[t].num_windows))
    /\ LET my == threads[t]
           now == <<my.current_time, my.time_error>>
           next == FloatAdd(now, my.song_length, my.num_windows)
           name == WindowChord(WindowNotes(my.all_notes, now, next, my.num_windows))
       IN  threads' = [threads EXCEPT ![t].chords = AppendChord(my.chords, name),
                                      ![t].current_time = next[1],
                                      ![t].time_error = next[2]]
    /\ UNCHANGED <<extractVars, resolveVars, diagramVars, sharedVars, siteVars>>

\* lines 70, 92-100 in thread t
ThreadFinish(t) ==
    /\ threads[t].pc = "window"
    /\ ~TimeLess(<<threads[t].current_time, threads[t].time_error>>,
                 Seconds(threads[t].song_length, threads[t].num_windows))
    /\ LET unique == UniqueChords(threads[t].chords, MaxUniqueChords)  IN
       threads' = [threads EXCEPT ![t].unique_chords = unique,
                                  ![t].result = ReturnValue(unique),
                                  ![t].pc = "returned"]
    /\ UNCHANGED <<extractVars, resolveVars, diagramVars, sharedVars, siteVars>>

NextThreads ==
    \E t \in Threads :
        \/ ThreadLoadFail(t)
        \/ ThreadLoadEmpty(t)
        \/ ThreadLoad(t)
        \/ ThreadWindow(t)
        \/ ThreadFinish(t)

SpecThreads == InitThreads /\ [][NextThreads]_vars

RECURSIVE WindowLoop(_, _, _, _, _)
\* lines 70-90 run to the end by one call alone: the chords list after the loop
WindowLoop(notes, T, W, now, cs) ==
    IF TimeLess(now, Seconds(T, W))
    THEN LET next == FloatAdd(now, T, W)  IN
         WindowLoop(notes, T, W, next,
                    AppendChord(cs, WindowChord(WindowNotes(notes, now, next, W))))
    ELSE cs

\* the value a call of midi_to_chords returns when it runs alone
midi_to_chords(midi_file) ==
    IF ~midi_file.readable THEN None
    ELSE LET notes == SortByStart(NonDrumNotes(midi_file.instruments))  IN
         IF notes = <<>> THEN None
         ELSE LET T == SongLength(notes)  IN
              ReturnValue(UniqueChords(WindowLoop(notes, T, NumWindows(T), <<0, 0>>, <<>>),
                                       MaxUniqueChords))

(***************************************************************************)
(* scripts/simple_chord_extractor.py: midi_to_chords with windows of 2 s   *)
(* and pitches_to_chord_name with triads only.  Its statements that read   *)
(* the notes (lines 17-26), count the pitch classes (lines 42-43) and join *)
(* the names (line 52) are those of ChordExtractor.midi_to_chords, and the *)
(* model uses the same operators for them.  Its times are whole numbers,   *)
(* which doubles hold exactly.                                             *)
(***************************************************************************)
simple_window_size == 2
simple_min_window_notes == 2
simple_top_pitches == 6
simple_max_chords == 8

\* the items of the chord_patterns dict literal, in source order
simple_chord_pattern_items == <<
    <<{0, 4, 7}, "C">>,    <<{0, 3, 7}, "Cm">>,
    <<{1, 5, 8}, "C#">>,   <<{1, 4, 8}, "C#m">>,
    <<{2, 6, 9}, "D">>,    <<{2, 5, 9}, "Dm">>,
    <<{3, 7, 10}, "D#">>,  <<{3, 6, 10}, "D#m">>,
    <<{4, 8, 11}, "E">>,   <<{4, 7, 11}, "Em">>,
    <<{5, 9, 0}, "F">>,    <<{5, 8, 0}, "Fm">>,
    <<{6, 10, 1}, "F#">>,  <<{6, 9, 1}, "F#m">>,
    <<{7, 11, 2}, "G">>,   <<{7, 10, 2}, "Gm">>,
    <<{8, 0, 3}, "G#">>,   <<{8, 11, 3}, "G#m">>,
    <<{9, 1, 4}, "A">>,    <<{9, 0, 4}, "Am">>,
    <<{10, 2, 5}, "A#">>,  <<{10, 1, 5}, "A#m">>,
    <<{11, 3, 6}, "B">>,   <<{11, 2, 6}, "Bm">> >>

simple_chord_patterns == DictOf(simple_chord_pattern_items)

\* lines 92-101
simple_pitches_to_chord_name(p) ==
    IF Range(Take(p, 3)) \in DOMAIN simple_chord_patterns
    THEN simple_chord_patterns[Range(Take(p, 3))]
    ELSE IF p # <<>> THEN NoteNameAt(p[1])
    ELSE None

\* the test of line 37
simple_in_window(note, t) ==
    \/ note.start <= t /\ t < note.end
    \/ t <= note.start /\ note.start < t + simple_window_size

RECURSIVE simple_window_notes(_, _)
\* lines 35-38
simple_window_notes(notes, t) ==
    IF notes = <<>> THEN <<>>
    ELSE (IF simple_in_window(Head(notes), t) THEN <<Head(notes).pitch % 12>> ELSE <<>>)
         \o simple_window_notes(Tail(notes), t)

\* lines 40-46: the name of one window, None when the window names none
simple_window_chord(window_notes) ==
    IF Len(window_notes) >= simple_min_window_notes
    THEN LET chord_pitches == MostCommon(window_notes, simple_top_pitches)
         IN  IF chord_pitches # <<>> THEN simple_pitches_to_chord_name(chord_pitches)
             ELSE None
    ELSE None

\* simple_append_chord comparing with the last name only
simple_append_chord_LastOnly(cs, name) ==
    IF name # None /\ name # "" /\ (cs = <<>> \/ name # cs[Len(cs)]) THEN Append(cs, name) ELSE cs

\* lines 47-48: "if chord_name and chord_name not in chords"
simple_append_chord(cs, name) ==
    IF name # None /\ name # "" /\ name \notin Range(cs) THEN Append(cs, name) ELSE cs

\* notes of length zero between held notes
GraceRecording ==
    Recording(<<Instrument(FALSE, <<Note(60, 0, 8), Note(64, 0, 2), Note(67, 2, 4),
                                    Note(70, 3, 3), Note(62, 4, 4), Note(65, 5, 8)>>)>>)

\* C and G blocks of 2 s in any order, up to 3 of them
SlowBlockRecordings ==
    UNION {{BlockRecording(ts, 2) : ts \in [1..n -> {CMajor, GMajor}]} : n \in 1..3}

\* the recordings both extractors are run on
ExtractorFiles ==
    ScaleRecordings \cup ClusterRecordings \cup SlowBlockRecordings \cup EmptyRecordings
        \cup {GraceRecording, Alternating(8), SustainedCMajor, LateRoot, Unreadable,
               Recording(<<TriadDrum>>)}
        \cup {Recording(<<Instrument(FALSE, ns)>>) : ns \in SeqsUpTo(PairNotes, MaxNotes - 1)}

InitExtractors ==
    /\ NewExtractor
    /\ files \in {<<r>> : r \in ExtractorFiles}
    /\ processed = 0
    /\ chord_results = EmptyDict
    /\ outcomes = <<>>
    /\ pc = "idle"
    /\ NoCall
    /\ NoResolve
    /\ NoDiagram
    /\ NoThreads
    /\ simple_file = files[1]
    /\ spc = "load"
    /\ simple_notes = <<>>
    /\ simple_time = 0
    /\ simple_log = <<>>
    /\ simple_chords = <<>>
    /\ simple_result = None
    /\ NoTab
    /\ NoMcGill
    /\ NoAnalyze

\* lines 14, 54-56: PrettyMIDI raises, the except branch returns None
SimpleLoadFail ==
    /\ spc = "load"
    /\ ~simple_file.readable
    /\ simple_result' = None
    /\ spc' = "returned"
    /\ UNCHANGED <<simple_file, simple_notes, simple_time, simple_log, simple_chords,
                   extractVars, resolveVars, diagramVars, threadVars, sharedVars,
                   tabVars, mcgillVars, analyzeVars>>

\* lines 14-23: no note of a non-drum instrument
SimpleLoadEmpty ==
    /\ spc = "load"
    /\ simple_file.readable
    /\ NonDrumNotes(simple_file.instruments) = <<>>
    /\ simple_result' = None
    /\ spc' = "returned"
    /\ UNCHANGED <<simple_file, simple_notes, simple_time, simple_log, simple_chords,
                   extractVars, resolveVars, diagramVars, threadVars, sharedVars,
                   tabVars, mcgillVars, analyzeVars>>

\* lines 14-31
SimpleLoad ==
    /\ spc = "load"
    /\ simple_file.readable
    /\ NonDrumNotes(simple_file.instruments) # <<>>
    /\ simple_notes' = SortByStart(NonDrumNotes(simple_file.instruments))
    /\ simple_chords' = <<>>
    /\ simple_time' = 0
    /\ spc' = "window"
    /\ UNCHANGED <<simple_file, simple_log, simple_result,
                   extractVars, resolveVars, diagramVars, threadVars, sharedVars,
                   tabVars, mcgillVars, analyzeVars>>

\* lines 33-50: one pass of the while loop
SimpleWindow ==
    /\ spc = "window"
    /\ simple_time < SongLength(simple_notes)
    /\ LET window_notes == simple_window_notes(simple_notes, simple_time)
           name == simple_window_chord(window_notes)
       IN  /\ simple_chords' = simple_append_chord(simple_chords, name)
           /\ simple_log' = Append(simple_log, [time |-> simple_time,
                                                window_notes |-> window_notes,
                                                chord_name |-> name])
    /\ simple_time' = simple_time + simple_window_size
    /\ UNCHANGED <<simple_file, spc, simple_notes, simple_result,
                   extractVars, resolveVars, diagramVars, threadVars, sharedVars,
                   tabVars, mcgillVars, analyzeVars>>

\* lines 33, 52: the loop ends and the first 8 names are joined
SimpleFinish ==
    /\ spc = "window"
    /\ ~(simple_time < SongLength(simple_notes))
    /\ simple_result' = Join(Take(simple_chords, simple_max_chords))
    /\ spc' = "returned"
    /\ UNCHANGED <<simple_file, simple_notes, simple_time, simple_log, simple_chords,
                   extractVars, resolveVars, diagramVars, threadVars, sharedVars,
                   tabVars, mcgillVars, analyzeVars>>

NextSimple ==
    \/ SimpleLoadFail
    \/ SimpleLoadEmpty
    \/ SimpleLoad
    \/ SimpleWindow
    \/ SimpleFinish

\* both extractors on the same recording, each at its own pace
NextExtractors == Next \/ NextSimple

SpecExtractors == InitExtractors /\ [][NextExtractors]_vars

(***************************************************************************)
(* scripts/bimmuda_website.py: TablatureGenerator._create_tab_notation.    *)
(* Of the lines it returns the model keeps the six string lines, each as   *)
(* its label and, per displayed chord, the character between the dashes of *)
(* its cell ("" for the cell of a chord without pattern); the header, the  *)
(* measure lines and the rhythm guide around them hold no fret.            *)
(***************************************************************************)
\* longest chord list of a tab call, apart from the long lists
MaxTabChords == 2

\* self.chord_tab_patterns: chord -> 'frets'
website_chord_tab_patterns ==
    [c \in {"C", "D", "E", "F", "G", "A", "B", "Am", "Bm", "Cm", "Dm", "Em", "Fm", "Gm"} |->
        CASE c = "C"  -> <<"x", "3", "2", "0", "1", "0">>
          [] c = "D"  -> <<"x", "x", "0", "2", "3", "2">>
          [] c = "E"  -> <<"0", "2", "2", "1", "0", "0">>
          [] c = "F"  -> <<"1", "3", "3", "2", "1", "1">>
          [] c = "G"  -> <<"3", "2", "0", "0", "3", "3">>
          [] c = "A"  -> <<"x", "0", "2", "2", "2", "0">>
          [] c = "B"  -> <<"x", "2", "4", "4", "4", "2">>
          [] c = "Am" -> <<"x", "0", "2", "2", "1", "0">>
          [] c = "Bm" -> <<"x", "2", "4", "4", "3", "2">>
          [] c = "Cm" -> <<"x", "3", "5", "5", "4", "3">>
          [] c = "Dm" -> <<"x", "x", "0", "2", "3", "1">>
          [] c = "Em" -> <<"0", "2", "2", "0", "0", "0">>
          [] c = "Fm" -> <<"1", "3", "3", "1", "1", "1">>
          [] c = "Gm" -> <<"3", "5", "5", "3", "3", "3">>]

\* line 76: chords[:6]
MaxDisplayChords == 6

\* line 107
string_labels == <<"e", "B", "G", "D", "A", "E">>

\* lines 120-125: the character a fret is shown as
FretCell(fret) == IF fret = "x" THEN "X" ELSE fret

\* lines 116-127: the cell of a chord on the line of string_idx (from 0)
TabCell(chord, idx) ==
    IF chord \in DOMAIN website_chord_tab_patterns
    THEN FretCell(website_chord_tab_patterns[chord][idx + 1])
    ELSE ""

\* lines 110-130: the line of string_idx
TabLine(displayed, idx) ==
    [label |-> string_labels[idx + 1],
     cells |-> [i \in 1..Len(displayed) |-> TabCell(displayed[i], idx)]]

\* the chord lists of the calls: short lists of any chord with a pattern or
\* without, and lists longer than the display
TabChordNames == DOMAIN website_chord_tab_patterns \cup {"F7"}
TabChordLists ==
    SeqsUpTo(TabChordNames, MaxTabChords)
        \cup {<<"C", "G", "Am", "F", "D", "Em", "A">>,
               <<"E", "Am", "Dm", "G", "C", "F", "Bm", "E">>}

InitTab ==
    /\ NewExtractor
    /\ files = <<>>
    /\ processed = 0
    /\ chord_results = EmptyDict
    /\ outcomes = <<>>
    /\ pc = "idle"
    /\ NoCall
    /\ NoResolve
    /\ NoDiagram
    /\ NoThreads
    /\ NoSimple
    /\ NoMcGill
    /\ NoAnalyze
    /\ tab_chords \in TabChordLists
    /\ display_chords = <<>>
    /\ string_idx = 0
    /\ tab_lines = <<>>
    /\ tpc = "call"

\* lines 73-74: "if not chords: return []"
TabNothing ==
    /\ tpc = "call"
    /\ tab_chords = <<>>
    /\ tpc' = "returned"
    /\ UNCHANGED <<tab_chords, display_chords, string_idx, tab_lines,
                   extractVars, resolveVars, diagramVars, threadVars, sharedVars,
                   simpleVars, mcgillVars, analyzeVars>>

\* lines 76-107: the chords to display, the header and the measure lines
TabHeader ==
    /\ tpc = "call"
    /\ tab_chords # <<>>
    /\ display_chords' = Take(tab_chords, MaxDisplayChords)
    /\ string_idx' = 0
    /\ tab_lines' = <<>>
    /\ tpc' = "strings"
    /\ UNCHANGED <<tab_chords,
                   extractVars, resolveVars, diagramVars, threadVars, sharedVars,
                   simpleVars, mcgillVars, analyzeVars>>

\* lines 109-130: one pass of the loop over the strings
TabString ==
    /\ tpc = "strings"
    /\ string_idx < Len(string_labels)
    /\ tab_lines' = Append(tab_lines, TabLine(display_chords, string_idx))
    /\ string_idx' = string_idx + 1
    /\ UNCHANGED <<tab_chords, display_chords, tpc,
                   extractVars, resolveVars, diagramVars, threadVars, sharedVars,
                   simpleVars, mcgillVars, analyzeVars>>

\* lines 132-150: the closing lines, and the return
TabReturn ==
    /\ tpc = "strings"
    /\ string_idx = Len(string_labels)
    /\ tpc' = "returned"
    /\ UNCHANGED <<tab_chords, display_chords, string_idx, tab_lines,
                   extractVars, resolveVars, diagramVars, threadVars, sharedVars,
                   simpleVars, mcgillVars, analyzeVars>>

NextTab ==
    \/ TabNothing
    \/ TabHeader
    \/ TabString
    \/ TabReturn

SpecTab == InitTab /\ [][NextTab]_vars

(***************************************************************************)
(* scripts/process_mcgill_chords.py: get_simplified_chord_progression on   *)
(* the entries (start_time, end_time, chord) that parse_chord_file gives:  *)
(* consecutive spans of one second, no entry labelled N.                   *)
(***************************************************************************)
\* longest annotation
MaxAnnotation == 4

\* chord labels of the annotation files
AnnotationLabels == {"C:maj", "G:maj", "A:min"}

\* the entries of an annotation with the given labels
Entries(labels) ==
    [i \in 1..Len(labels) |-> [start_time |-> i - 1, end_time |-> i, chord |-> labels[i]]]

Annotations == {Entries(labels) : labels \in SeqsUpTo(AnnotationLabels, MaxAnnotation)}

RECURSIVE JoinBar(_)
\* " | ".join(names)
JoinBar(names) ==
    IF names = <<>> THEN ""
    ELSE IF Len(names) = 1 THEN names[1]
    ELSE names[1] \o " | " \o JoinBar(Tail(names))

InitMcGill ==
    /\ NewExtractor
    /\ files = <<>>
    /\ processed = 0
    /\ chord_results = EmptyDict
    /\ outcomes = <<>>
    /\ pc = "idle"
    /\ NoCall
    /\ NoResolve
    /\ NoDiagram
    /\ NoThreads
    /\ NoSimple
    /\ NoTab
    /\ NoAnalyze
    /\ annotation \in Annotations
    /\ entry_idx = 0
    /\ chord_sequence = <<>>
    /\ last_chord = None
    /\ simplified = None
    /\ mpc = "call"

\* lines 49-50: "if not chords: return"
McGillNothing ==
    /\ mpc = "call"
    /\ annotation = <<>>
    /\ simplified' = ""
    /\ mpc' = "returned"
    /\ UNCHANGED <<annotation, entry_idx, chord_sequence, last_chord,
                   extractVars, resolveVars, diagramVars, threadVars, sharedVars,
                   simpleVars, tabVars, analyzeVars>>

\* lines 53-54: chord_sequence = [], last_chord = None
McGillStart ==
    /\ mpc = "call"
    /\ annotation # <<>>
    /\ chord_sequence' = <<>>
    /\ last_chord' = None
    /\ entry_idx' = 0
    /\ mpc' = "loop"
    /\ UNCHANGED <<annotation, simplified,
                   extractVars, resolveVars, diagramVars, threadVars, sharedVars,
                   simpleVars, tabVars, analyzeVars>>

\* lines 56-59: one pass of the loop, on a chord that differs from last_chord
McGillAppend ==
    /\ mpc = "loop"
    /\ entry_idx < Len(annotation)
    /\ annotation[entry_idx + 1].chord # last_chord
    /\ chord_sequence' = Append(chord_sequence, annotation[entry_idx + 1].chord)
    /\ last_chord' = annotation[entry_idx + 1].chord
    /\ entry_idx' = entry_idx + 1
    /\ UNCHANGED <<annotation, simplified, mpc,
                   extractVars, resolveVars, diagramVars, threadVars, sharedVars,
                   simpleVars, tabVars, analyzeVars>>

\* lines 56-57: one pass of the loop, on a chord equal to last_chord
McGillSkip ==
    /\ mpc = "loop"
    /\ entry_idx < Len(annotation)
    /\ annotation[entry_idx + 1].chord = last_chord
    /\ entry_idx' = entry_idx + 1
    /\ UNCHANGED <<annotation, chord_sequence, last_chord, simplified, mpc,
                   extractVars, resolveVars, diagramVars, threadVars, sharedVars,
                   simpleVars, tabVars, analyzeVars>>

\* line 61
McGillReturn ==
    /\ mpc = "loop"
    /\ entry_idx = Len(annotation)
    /\ simplified' = JoinBar(chord_sequence)
    /\ mpc' = "returned"
    /\ UNCHANGED <<annotation, entry_idx, chord_sequence, last_chord,
                   extractVars, resolveVars, diagramVars, threadVars, sharedVars,
                   simpleVars, tabVars, analyzeVars>>

NextMcGill ==
    \/ McGillNothing
    \/ McGillStart
    \/ McGillAppend
    \/ McGillSkip
    \/ McGillReturn

SpecMcGill == InitMcGill /\ [][NextMcGill]_vars

(***************************************************************************)
(* scripts/tablature_generator.py: TablatureGenerator.analyze_tab_potential *)
(* and _assess_difficulty.  A stored progression is kept as the list of    *)
(* names that split(' - ') and strip() give ("" alone for an empty         *)
(* string).                                                                *)
(***************************************************************************)
\* most progressions stored in the database
MaxStored == 3

\* self.chord_tab_patterns: chord -> 'difficulty'
chord_tab_patterns ==
    [c \in {"C", "Am", "F", "G", "D", "Em", "A", "E"} |->
        IF c = "F" THEN "Intermediate" ELSE "Beginner"]

\* lines 238-246: difficulty_scores
RECURSIVE difficulty_scores(_)
difficulty_scores(names) ==
    IF names = <<>> THEN <<>>
    ELSE (IF Head(names) \in DOMAIN chord_tab_patterns
          THEN <<CASE chord_tab_patterns[Head(names)] = "Beginner" -> 1
                   [] chord_tab_patterns[Head(names)] = "Intermediate" -> 2
                   [] OTHER -> 3>>
          ELSE <<>>)
         \o difficulty_scores(Tail(names))

RECURSIVE Sum(_)
Sum(numbers) == IF numbers = <<>> THEN 0 ELSE Head(numbers) + Sum(Tail(numbers))

\* _assess_difficulty, lines 233-258; sum / len <= 1.2 is 5 * sum <= 6 * len
\* and sum / len <= 2.0 is sum <= 2 * len
assess_difficulty(names) ==
    LET scores == difficulty_scores(names)  IN
    IF names = <<>> \/ scores = <<>> THEN "Unknown"
    ELSE IF 5 * Sum(scores) <= 6 * Len(scores) THEN "Beginner"
    ELSE IF Sum(scores) <= 2 * Len(scores) THEN "Intermediate"
    ELSE "Advanced"

\* difficulty.lower() of the strings _assess_difficulty returns
Lower(difficulty) ==
    CASE difficulty = "Beginner" -> "beginner"
      [] difficulty = "Intermediate" -> "intermediate"
      [] difficulty = "Advanced" -> "advanced"
      [] difficulty = "Unknown" -> "unknown"

\* the key of line 293
DifficultyKey(names) == Lower(assess_difficulty(names)) \o "_friendly"

\* line 288: [chord for chord in chords if chord in self.chord_tab_patterns]
RECURSIVE available_chords(_)
available_chords(names) ==
    IF names = <<>> THEN <<>>
    ELSE (IF Head(names) \in DOMAIN chord_tab_patterns THEN <<Head(names)>> ELSE <<>>)
         \o available_chords(Tail(names))

\* the names of chord_tab_patterns as sorted() orders strings
SortedPatternNames == <<"A", "Am", "C", "D", "E", "Em", "F", "G">>

RECURSIVE SortedFrom(_, _)
\* sorted(names) for names of chord_tab_patterns, from place k of the order on
SortedFrom(names, k) ==
    IF k > Len(SortedPatternNames) THEN <<>>
    ELSE SelectSeq(names, LAMBDA n : n = SortedPatternNames[k]) \o SortedFrom(names, k + 1)

\* line 297: ' - '.join(sorted(available_chords))
Combo(names) == Join(SortedFrom(names, 1))

\* lines 296-298 on the defaultdict
CountCombo(combinations, names) ==
    IF Len(names) <= 4
    THEN [k \in DOMAIN combinations \cup {Combo(names)} |->
             (IF k \in DOMAIN combinations THEN combinations[k] ELSE 0)
                 + (IF k = Combo(names) THEN 1 ELSE 0)]
    ELSE combinations

\* the progressions the database may hold
StoredProgressions ==
    {<<"C">>, <<"F">>, <<"G", "C">>, <<"C", "F">>, <<"C", "C", "C", "C", "F">>,
     <<"C", "G", "Am", "F">>, <<"C", "Dm">>, <<"Dm">>, <<"">>}

InitAnalyze ==
    /\ NewExtractor
    /\ files = <<>>
    /\ processed = 0
    /\ chord_results = EmptyDict
    /\ outcomes = <<>>
    /\ pc = "idle"
    /\ NoCall
    /\ NoResolve
    /\ NoDiagram
    /\ NoThreads
    /\ NoSimple
    /\ NoTab
    /\ NoMcGill
    /\ progressions \in SeqsUpTo(StoredProgressions, MaxStored)
    /\ song_idx = 0
    /\ tab_stats = NewTabStats(0)
    /\ raised = None
    /\ apc = "call"

\* lines 262-282: the progressions are fetched and tab_stats is built
AnalyzeQuery ==
    /\ apc = "call"
    /\ tab_stats' = NewTabStats(Len(progressions))
    /\ song_idx' = 0
    /\ apc' = "loop"
    /\ UNCHANGED <<progressions, raised,
                   extractVars, resolveVars, diagramVars, threadVars, sharedVars,
                   simpleVars, tabVars, mcgillVars>>

\* lines 284-298: a progression whose chords all have a pattern, counted
\* under the key of its difficulty
AnalyzeComplete ==
    /\ apc = "loop"
    /\ song_idx < Len(progressions)
    /\ LET names == progressions[song_idx + 1]
           available == available_chords(names)
       IN  /\ Len(available) = Len(names)
           /\ DifficultyKey(available) \in DOMAIN tab_stats
           /\ tab_stats' =
                  [tab_stats EXCEPT
                      !.can_create_tabs = @ + 1,
                      ![DifficultyKey(available)] = @ + 1,
                      !.common_chord_combinations = CountCombo(@, available)]
    /\ song_idx' = song_idx + 1
    /\ UNCHANGED <<progressions, raised, apc,
                   extractVars, resolveVars, diagramVars, threadVars, sharedVars,
                   simpleVars, tabVars, mcgillVars>>

\* lines 284-293: a progression whose chords all have a pattern and whose
\* difficulty key tab_stats does not have: line 293 raises KeyError
AnalyzeKeyError ==
    /\ apc = "loop"
    /\ song_idx < Len(progressions)
    /\ LET names == progressions[song_idx + 1]
           available == available_chords(names)
       IN  /\ Len(available) = Len(names)
           /\ DifficultyKey(available) \notin DOMAIN tab_stats
           /\ tab_stats' = [tab_stats EXCEPT !.can_create_tabs = @ + 1]
           /\ raised' = DifficultyKey(available)
    /\ apc' = "raised"
    /\ UNCHANGED <<progressions, song_idx,
                   extractVars, resolveVars, diagramVars, threadVars, sharedVars,
                   simpleVars, tabVars, mcgillVars>>

\* lines 284-290, 300-301: some chords have a pattern
AnalyzePartial ==
    /\ apc = "loop"
    /\ song_idx < Len(progressions)
    /\ LET names == progressions[song_idx + 1]
           available == available_chords(names)
       IN  /\ Len(available) # Len(names)
           /\ available # <<>>
    /\ tab_stats' = [tab_stats EXCEPT !.partial_tabs = @ + 1]
    /\ song_idx' = song_idx + 1
    /\ UNCHANGED <<progressions, raised, apc,
                   extractVars, resolveVars, diagramVars, threadVars, sharedVars,
                   simpleVars, tabVars, mcgillVars>>

\* lines 284-290, 302-303: no chord has a pattern
AnalyzeNone ==
    /\ apc = "loop"
    /\ song_idx < Len(progressions)
    /\ LET names == progressions[song_idx + 1]
           available == available_chords(names)
       IN  /\ Len(available) # Len(names)
           /\ available = <<>>
    /\ tab_stats' = [tab_stats EXCEPT !.no_tabs = @ + 1]
    /\ song_idx' = song_idx + 1
    /\ UNCHANGED <<progressions, raised, apc,
                   extractVars, resolveVars, diagramVars, threadVars, sharedVars,
                   simpleVars, tabVars, mcgillVars>>

\* line 305
AnalyzeReturn ==
    /\ apc = "loop"
    /\ song_idx = Len(progressions)
    /\ apc' = "returned"
    /\ UNCHANGED <<progressions, song_idx, tab_stats, raised,
                   extractVars, resolveVars, diagramVars, threadVars, sharedVars,
                   simpleVars, tabVars, mcgillVars>>

NextAnalyze ==
    \/ AnalyzeQuery
    \/ AnalyzeComplete
    \/ AnalyzeKeyError
    \/ AnalyzePartial
    \/ AnalyzeNone
    \/ AnalyzeReturn

SpecAnalyze == InitAnalyze /\ [][NextAnalyze]_vars

(***************************************************************************)
(* Properties.                                                             *)
(***************************************************************************)
NoAdjacentEqual(s) == \A i \in 1..(Len(s) - 1) : s[i] # s[i + 1]

\* the call has returned from the file it was given
Returned == pc = "returned"
CurrentFile == files[processed]

\* C1: neither the chords emitted while the windows are scanned nor any
\* returned sequence contains two consecutive equal chord names.
C1_NoConsecutiveEqual ==
    /\ NoAdjacentEqual(chords)
    /\ NoAdjacentEqual(unique_chords)
    /\ \A i \in 1..Len(outcomes) : NoAdjacentEqual(outcomes[i].unique_chords)

\* two consecutive windows resolved to the same name and the call returned
\* at least two names
C1_Witness ==
    /\ Returned
    /\ Len(unique_chords) >= 2
    /\ \E i \in 1..(Len(window_log) - 1) :
           /\ window_log[i].chord_name # None
           /\ window_log[i].chord_name = window_log[i + 1].chord_name

EightAlternating == <<"C", "G", "C", "G", "C", "G", "C", "G">>

\* C2 as stated: the recording alternating between C major and G major every
\* second for 8 s returns the 8 names C, G, C, G, C, G, C, G.
C2_AlternatingReturnsEight ==
    (Returned /\ CurrentFile = Alternating(8)) => unique_chords = EightAlternating

\* C2 amended: for that recording the 8 windows emit C, G, C, G, C, G, C, G
\* (only the immediately preceding name is compared while scanning), and the
\* returned progression keeps the first occurrence of each name: C, G.
C2_AlternatingReturnsFirstOccurrences ==
    (Returned /\ CurrentFile = Alternating(8)) =>
        /\ num_windows = 8
        /\ chords = EightAlternating
        /\ unique_chords = <<"C", "G">>
        /\ result = "C - G"

C2_Witness ==
    /\ Returned
    /\ files = <<Alternating(8)>>
    /\ Len(window_log) = 8
    /\ result # None

OnlyPercussive(rec) ==
    /\ rec.readable
    /\ \A i \in 1..Len(rec.instruments) :
           rec.instruments[i].is_drum \/ rec.instruments[i].notes = <<>>

\* C4: a call on a recording with no notes, or with notes of drum
\* instruments only, returns no chord (None, no name kept) without taking
\* the except branch.
C4_NoHarmonicNotesReturnsNothing ==
    /\ (Returned /\ OnlyPercussive(CurrentFile)) =>
           /\ result = None
           /\ unique_chords = <<>>
           /\ chords = <<>>
           /\ window_log = <<>>
           /\ ~error
    /\ \A i \in 1..Len(outcomes) :
           OnlyPercussive(files[i]) =>
               /\ outcomes[i].result = None
               /\ outcomes[i].unique_chords = <<>>
               /\ ~outcomes[i].error

\* a call on a recording holding drum notes only has returned
C4_Witness ==
    /\ Returned
    /\ CurrentFile = Recording(<<TriadDrum>>)
    /\ result = None

DistinctPitchClasses(w) == Cardinality(Range(w.window_notes))

\* C5 as stated: a window with fewer than 3 distinct pitch classes appends
\* no chord, and a call none of whose windows collected 3 distinct pitch
\* classes returns nothing.
C5_FewDistinctClassesEmitNothing ==
    /\ \A i \in 1..Len(window_log) :
           DistinctPitchClasses(window_log[i]) < 3 => ~window_log[i].appended
    /\ (Returned /\ \A i \in 1..Len(window_log) : DistinctPitchClasses(window_log[i]) < 3)
           => unique_chords = <<>>

\* C5 amended: a window that collected fewer than 3 notes (pitch-class
\* instances, equal ones counted each time) resolves no name and appends no
\* chord, and a call none of whose windows collected 3 notes returns nothing.
C5_FewNotesEmitNothing ==
    /\ \A i \in 1..Len(window_log) :
           Len(window_log[i].window_notes) < 3 =>
               /\ window_log[i].chord_name = None
               /\ ~window_log[i].appended
    /\ (Returned /\ \A i \in 1..Len(window_log) : Len(window_log[i].window_notes) < 3)
           => (unique_chords = <<>> /\ result = None)

\* every window was evaluated, one collected 2 notes, none collected 3
C5_Witness ==
    /\ Returned
    /\ window_log # <<>>
    /\ \E i \in 1..Len(window_log) : Len(window_log[i].window_notes) = 2
    /\ \A i \in 1..Len(window_log) : Len(window_log[i].window_notes) < 3
    /\ result = None

\* C6: for pitches 60, 64, 67 held from 0 to 4 the song length 4 gives 8
\* windows, each of the 8 windows collects the pitch classes 0, 4, 7 and
\* the call returns the single name C.
C6_SustainedTriadReturnsC ==
    (Returned /\ CurrentFile = SustainedCMajor) =>
        /\ song_length = 4
        /\ num_windows = 8
        /\ Len(window_log) = 8
        /\ \A i \in 1..Len(window_log) :
               /\ window_log[i].window_notes = <<0, 4, 7>>
               /\ window_log[i].chord_name = "C"
        /\ chords = <<"C">>
        /\ unique_chords = <<"C">>
        /\ result = "C"

C6_Witness ==
    /\ Returned
    /\ files = <<SustainedCMajor>>
    /\ Len(window_log) = 8
    /\ result = "C"

\* p lists every element of the set K exactly once
IsOrderingOf(p, K) == Range(p) = K /\ Len(p) = Cardinality(K)

ResolveReturned == rpc = "returned"

\* C7: called on any ordering of the key of a table item (3 or 4 pitch
\* classes), pitches_to_chord_name returns that item's name; every ordering
\* of {0,4,7} gives C, every ordering of {9,0,4} gives Am, [2,6,9,1] gives
\* Dmaj7.
C7_TemplateOrderingsResolve ==
    ResolveReturned =>
        /\ \A i \in 1..Len(chord_pattern_items) :
               (/\ Cardinality(chord_pattern_items[i][1]) \in {3, 4}
                /\ IsOrderingOf(pitches, chord_pattern_items[i][1]))
                   => chord_name = chord_pattern_items[i][2]
        /\ IsOrderingOf(pitches, {0, 4, 7}) => chord_name = "C"
        /\ IsOrderingOf(pitches, {9, 0, 4}) => chord_name = "Am"
        /\ pitches = <<2, 6, 9, 1>> => chord_name = "Dmaj7"

\* an ordering of D major 7th other than the table's was resolved
C7_Witness ==
    /\ ResolveReturned
    /\ pitches = <<1, 9, 6, 2>>
    /\ chord_name = "Dmaj7"

\* neither the first 4 nor the first 3 elements of p are the key of an item
NoTemplateMatches(p) ==
    \A i \in 1..Len(chord_pattern_items) : \A n \in {3, 4} :
        ~(Len(p) >= n /\ Range(Take(p, n)) = chord_pattern_items[i][1])

ChordNames ==
    Range(note_names) \cup {chord_pattern_items[i][2] : i \in 1..Len(chord_pattern_items)}

\* C8: on every non-empty list of pitch classes 0..11, of any length,
\* pitches_to_chord_name returns a name and raises nothing; the name is
\* the root label of the first element when no template matches
\* ([5] gives F); None is returned exactly for the empty list.
C8_ResolveTotal ==
    ResolveReturned =>
        /\ pitches # <<>> => chord_name \in ChordNames
        /\ (pitches # <<>> /\ NoTemplateMatches(pitches))
               => chord_name = note_names[pitches[1] + 1]
        /\ pitches = <<5>> => chord_name = "F"
        /\ chord_name = None <=> pitches = <<>>
        /\ chord_name # IndexError

\* a list of 2 pitch classes starting with 11 fell back to the root label B
C8_Witness ==
    /\ ResolveReturned
    /\ Len(pitches) = 2
    /\ pitches[1] = 11
    /\ chord_name = "B"

\* the non-drum instruments of a recording
HarmonicPart(rec) == SelectSeq(rec.instruments, LAMBDA ins : ~ins.is_drum)

\* C9: two processed recordings that differ only in their drum instruments
\* got the same song length, the same number of windows and the same
\* returned chords.
C9_PercussiveNotesIgnored ==
    \A i, j \in 1..Len(outcomes) :
        (/\ files[i].readable
         /\ files[j].readable
         /\ HarmonicPart(files[i]) = HarmonicPart(files[j]))
            => outcomes[i] = outcomes[j]

\* a recording and its variant with a drum note ending after every other
\* note were both processed, and chords were returned
C9_Witness ==
    /\ Len(outcomes) = 2
    /\ files[1] # files[2]
    /\ \E k \in 1..Len(files[2].instruments) : files[2].instruments[k] = LongDrum
    /\ outcomes[1].song_length < 40
    /\ outcomes[2].result # None

\* the root labels 0=C .. 11=B
RootLabel(r) ==
    CASE r = 0 -> "C"  [] r = 1 -> "C#" [] r = 2 -> "D"   [] r = 3 -> "D#"
      [] r = 4 -> "E"  [] r = 5 -> "F"  [] r = 6 -> "F#"  [] r = 7 -> "G"
      [] r = 8 -> "G#" [] r = 9 -> "A"  [] r = 10 -> "A#" [] r = 11 -> "B"

\* the four templates of root r
TemplatesOfRoot(r) ==
    {<<{r, (r + 4) % 12, (r + 7) % 12}, RootLabel(r)>>,
     <<{r, (r + 3) % 12, (r + 7) % 12}, RootLabel(r) \o "m">>,
     <<{r, (r + 4) % 12, (r + 7) % 12, (r + 11) % 12}, RootLabel(r) \o "maj7">>,
     <<{r, (r + 4) % 12, (r + 7) % 12, (r + 10) % 12}, RootLabel(r) \o "7">>}

FourFamilies == UNION {TemplatesOfRoot(r) : r \in 0..11}

\* the family template found by looking up the first 4, else the first 3,
\* elements of p; None when neither is a family set
FamilyLookup(p) ==
    IF \E t \in FourFamilies : Len(p) >= 4 /\ t[1] = Range(Take(p, 4))
    THEN (CHOOSE t \in FourFamilies : t[1] = Range(Take(p, 4)))[2]
    ELSE IF \E t \in FourFamilies : Len(p) >= 3 /\ t[1] = Range(Take(p, 3))
    THEN (CHOOSE t \in FourFamilies : t[1] = Range(Take(p, 3)))[2]
    ELSE None

ItemsMatching(p, n) ==
    {i \in 1..Len(chord_pattern_items) :
        Len(p) >= n /\ chord_pattern_items[i][1] = Range(Take(p, n))}

\* no two items of the literal have the same key
DistinctKeys ==
    \A i, j \in 1..Len(chord_pattern_items) :
        i # j => chord_pattern_items[i][1] # chord_pattern_items[j][1]

\* C11: no two items of the chord_patterns literal have the same key, so
\* the dict keeps every item, and the set that pitches_to_chord_name looks
\* up for a chord size is the key of at most one item, whose name the
\* lookup gives.
C11_KeysPairwiseDistinct ==
    ResolveReturned =>
        /\ DistinctKeys
        /\ Cardinality(DOMAIN self_chord_patterns) = Len(chord_pattern_items)
        /\ \A n \in {3, 4} :
               /\ Cardinality(ItemsMatching(pitches, n)) <= 1
               /\ \A i \in ItemsMatching(pitches, n) :
                      chord_patterns[Range(Take(pitches, n))] = chord_pattern_items[i][2]

\* a lookup that finds C#, the key written in another order than the literal's
C11_Witness ==
    /\ ResolveReturned
    /\ pitches = <<8, 1, 5>>
    /\ chord_name = "C#"

\* C12 as stated: the table has 96 entries.
C12_NinetySixEntries ==
    ResolveReturned => Cardinality(DOMAIN chord_patterns) = 96

\* C12: the table has 48 entries, 12 for each of the four families (major,
\* minor, major 7th, dominant 7th), 24 of three and 24 of four pitch classes.
C12_FortyEightEntries ==
    ResolveReturned =>
        /\ Len(chord_pattern_items) = 48
        /\ Cardinality(DOMAIN chord_patterns) = 48
        /\ Cardinality({k \in DOMAIN chord_patterns : Cardinality(k) = 3}) = 24
        /\ Cardinality({k \in DOMAIN chord_patterns : Cardinality(k) = 4}) = 24
        /\ Cardinality({chord_patterns[k] : k \in DOMAIN chord_patterns}) = 48

\* a lookup that finds the last item of the table
C12_Witness ==
    /\ ResolveReturned
    /\ pitches = <<11, 3, 6, 9>>
    /\ chord_name = chord_pattern_items[48][2]


(***************************************************************************)
(* The layout of the windows.                                              *)
(***************************************************************************)
\* the windows of the current call have been laid out
LaidOut == pc \in {"window", "returned"} /\ all_notes # <<>>

\* the end times of the notes of instrument i of a recording
EndsOf(rec, i) == {rec.instruments[i].notes[k].end : k \in 1..Len(rec.instruments[i].notes)}

\* the latest end of a note of a non-drum instrument
LatestHarmonicEnd(rec) ==
    LET ends == UNION {EndsOf(rec, i) :
                          i \in {j \in 1..Len(rec.instruments) : ~rec.instruments[j].is_drum}}
    IN  CHOOSE e \in ends : \A f \in ends : f <= e

\* C17: once the windows are laid out, song_length T is the latest end of a
\* non-drum note, num_windows W is 8 for T < 18, floor(T / 2) for
\* 18 <= T < 32 and 16 for T >= 32, and window_size is the double nearest
\* to T / W: after the first pass current_time is W * S = T in the model's
\* scale, with an error of at most half the spacing of the doubles.
C17_WindowCountAndSize ==
    LaidOut =>
        /\ song_length = LatestHarmonicEnd(CurrentFile)
        /\ num_windows = IF song_length < 18 THEN 8
                         ELSE IF song_length < 32 THEN song_length \div 2
                         ELSE 16
        /\ Len(window_log) >= 2 =>
               /\ window_log[1].time = 0 /\ window_log[1].time_error = 0
               /\ window_log[2].time = song_length
               /\ 2 * window_log[2].time_error <= num_windows
               /\ -2 * window_log[2].time_error <= num_windows

\* a 25 s recording laid out in 12 windows whose size is not exactly 25 / 12
C17_Witness ==
    /\ LaidOut
    /\ song_length = 25
    /\ num_windows = 12
    /\ Len(window_log) >= 2
    /\ window_log[2].time_error # 0


\* C18 as stated: a call on a recording with a non-drum note evaluates
\* exactly num_windows windows, window i (from 0) at i * window_size, in
\* increasing order, and then returns.
C18_ExactlyWWindows ==
    (Returned /\ ~error /\ all_notes # <<>>) =>
        /\ Len(window_log) = num_windows
        /\ \A i \in 1..Len(window_log) : window_log[i].time = (i - 1) * song_length


(***************************************************************************)
(* The notes of a window.  Window i (from 0) starts at t_i = i * S with    *)
(* S = T / W; multiplied by W, t_i is i * T and t_i + S is (i + 1) * T.    *)
(***************************************************************************)
\* start <= t_i < end
SoundsAt(note, i) ==
    note.start * num_windows <= i * song_length /\ i * song_length < note.end * num_windows
\* t_i <= start < t_i + S
StartsIn(note, i) ==
    /\ i * song_length <= note.start * num_windows
    /\ note.start * num_windows < (i + 1) * song_length

\* the notes of the non-drum instruments of a recording, as <<instrument, index>>
HarmonicNoteIds(rec) ==
    UNION {{<<i, k>> : k \in 1..Len(rec.instruments[i].notes)} :
              i \in {j \in 1..Len(rec.instruments) : ~rec.instruments[j].is_drum}}
NoteOf(rec, id) == rec.instruments[id[1]].notes[id[2]]

\* how often x occurs in a sequence
Occurrences(seq, x) == Cardinality({k \in 1..Len(seq) : seq[k] = x})

\* the windows 0..W-1 that have been evaluated, as indices of window_log
LoggedWindows == 1..Min(Len(window_log), num_windows)
\* the window evaluated last, if it is one of 0..W-1; every window of a call
\* is the last one in the state its pass of the loop leads to
LastWindow == {Len(window_log)} \cap LoggedWindows

\* C19: in each window i of 0..W-1, when it has been evaluated, every pitch
\* class occurs in window_notes as often as there are non-drum notes of
\* that pitch class with start <= t_i < end or t_i <= start < t_i + S;
\* other notes add nothing.
C19_WindowMembership ==
    LaidOut =>
        \A w \in LastWindow : \A c \in PitchClasses :
            Occurrences(window_log[w].window_notes, c) =
                Cardinality({id \in HarmonicNoteIds(CurrentFile) :
                    LET note == NoteOf(CurrentFile, id)  IN
                    /\ note.pitch % 12 = c
                    /\ SoundsAt(note, w - 1) \/ StartsIn(note, w - 1)})

\* a window at a time that is not a double exactly, with a note that only
\* sounds at its start, one that only starts in it and one that does neither
C19_Witness ==
    /\ Returned
    /\ all_notes # <<>>
    /\ \E w \in LoggedWindows :
           /\ window_log[w].time_error # 0
           /\ \E a \in 1..Len(all_notes) :
                  SoundsAt(all_notes[a], w - 1) /\ ~StartsIn(all_notes[a], w - 1)
           /\ \E b \in 1..Len(all_notes) :
                  StartsIn(all_notes[b], w - 1) /\ ~SoundsAt(all_notes[b], w - 1)
           /\ \E c \in 1..Len(all_notes) :
                  ~SoundsAt(all_notes[c], w - 1) /\ ~StartsIn(all_notes[c], w - 1)


\* the notes of all_notes, by index, that pass an alternative of the test in window i
Sounding(i) == {k \in 1..Len(all_notes) : SoundsAt(all_notes[k], i)}
Starting(i) == {k \in 1..Len(all_notes) : StartsIn(all_notes[k], i)}

\* C20 as stated: a note that sounds at t_i and starts in [t_i, t_i + S) is
\* counted twice, so window_notes has one element for each alternative
\* passed.
C20_BothTestsCountTwice ==
    LaidOut =>
        \A w \in LastWindow :
            Len(window_log[w].window_notes) =
                Cardinality(Sounding(w - 1)) + Cardinality(Starting(w - 1))

\* C20: the two alternatives are joined by `or` in one if with one append,
\* so window_notes has exactly one element for each note passing at least
\* one of them; a note passing both is counted once and its pitch class
\* gets no extra weight.
C20_EachNoteCountedOnce ==
    LaidOut =>
        \A w \in LastWindow :
            /\ Len(window_log[w].window_notes) =
                   Cardinality(Sounding(w - 1) \cup Starting(w - 1))
            /\ \A j \in Sounding(w - 1) \cap Starting(w - 1) :
                   LET c == all_notes[j].pitch % 12  IN
                   Occurrences(window_log[w].window_notes, c) =
                       Cardinality({k \in Sounding(w - 1) \cup Starting(w - 1) :
                                       all_notes[k].pitch % 12 = c})

\* a window with a note that passes both alternatives and one that passes
\* only one, of another pitch class
C20_Witness ==
    /\ Returned
    /\ all_notes # <<>>
    /\ \E w \in LoggedWindows :
           /\ \E k \in Sounding(w - 1) \cap Starting(w - 1) :
              \E j \in Sounding(w - 1) \ Starting(w - 1) :
                  all_notes[k].pitch % 12 # all_notes[j].pitch % 12
           /\ window_log[w].chord_name # None


(***************************************************************************)
(* Effects of a call outside its own local variables.                      *)
(***************************************************************************)
\* C13: no step of midi_to_chords or pitches_to_chord_name changes the
\* template table or any recording (the pitch, start and end of every note
\* of every instrument), the table stays the one __init__ built, and two
\* calls on the same recording return the same chords.
C13_NoSideEffects ==
    /\ [][files' = files /\ self_chord_patterns' = self_chord_patterns]_vars
    /\ [](/\ self_chord_patterns = chord_patterns
          /\ \A i, j \in 1..Len(outcomes) :
                 files[i] = files[j] =>
                     /\ outcomes[i].unique_chords = outcomes[j].unique_chords
                     /\ outcomes[i].result = outcomes[j].result)

\* the same recording processed twice, with notes that line 60 had to
\* reorder, and chords returned
C13_Witness ==
    /\ Len(outcomes) = 2
    /\ files[1] = files[2]
    /\ outcomes[1].result # None
    /\ LET notes == files[1].instruments[1].notes  IN
       \E k \in 1..(Len(notes) - 1) : notes[k].start > notes[k + 1].start


\* C14: a file that cannot be read makes midi_to_chords return None through
\* its except branch, no exception leaves the call, process_all_midis stores
\* no chord_results entry for that file, and the loop goes on: between two
\* calls every file taken so far has returned, whether it could be read or
\* not.
C14_UnreadableYieldsNoEntry ==
    /\ pc \in {"idle", "load", "window", "returned"}
    /\ \A i \in 1..Len(outcomes) :
           ~files[i].readable =>
               /\ outcomes[i].result = None
               /\ outcomes[i].unique_chords = <<>>
               /\ outcomes[i].error
    /\ \A id \in DOMAIN chord_results : files[chord_results[id].midi_file].readable
    /\ pc = "idle" => Len(outcomes) = processed
    /\ pc # "idle" => Len(outcomes) = processed - 1

\* an unreadable file was processed first, then a readable one whose chords
\* were stored
C14_Witness ==
    /\ Len(files) = 2
    /\ ~files[1].readable
    /\ Len(outcomes) = 2
    /\ outcomes[1].result = None
    /\ outcomes[2].result # None
    /\ \E id \in DOMAIN chord_results : chord_results[id].midi_file = 2


(***************************************************************************)
(* The chord library against the names the extractor emits.                *)
(***************************************************************************)
\* C16 as stated: every chord of a progression of emitted names gets a
\* fingering from get_chord_data, none gets the placeholder for a missing
\* chord.
C16_EveryEmittedChordHasADiagram ==
    \A i \in 1..Len(chord_diagrams) :
        /\ chord_diagrams[i].diagram_data # None
        /\ ~chord_diagrams[i].missing


(***************************************************************************)
(* Calls running side by side.                                             *)
(***************************************************************************)
\* C15: however the steps of the threads are interleaved, a step writes
\* the locals of one thread only, the template table is never written, and
\* every thread returns what its call returns when it runs alone.
C15_InterleavedRunsAgree ==
    /\ [][/\ \E t \in Threads : \A u \in Threads \ {t} : threads'[u] = threads[u]
          /\ self_chord_patterns' = self_chord_patterns]_vars
    /\ [](\A t \in DOMAIN threads :
              threads[t].pc = "returned" =>
                  threads[t].result = midi_to_chords(threads[t].midi_file))

\* two calls on different recordings, both inside their window loops
\* after emitting different chords, neither at its first window
C15_Witness ==
    /\ threads # <<>>
    /\ threads[1].pc = "window" /\ threads[2].pc = "window"
    /\ threads[1].midi_file # threads[2].midi_file
    /\ threads[1].current_time > 0 /\ threads[2].current_time > 0
    /\ threads[1].chords # <<>> /\ threads[2].chords # <<>>
    /\ threads[1].chords # threads[2].chords


(***************************************************************************)
(* The pitch classes handed to pitches_to_chord_name.                      *)
(***************************************************************************)
\* the notes of all_notes, by index, collected in window i with pitch class c
Collected(i, c) ==
    {k \in Sounding(i) \cup Starting(i) : all_notes[k].pitch % 12 = c}
\* the first of them in all_notes, which line 60 has sorted by start
FirstCollected(i, c) == CHOOSE k \in Collected(i, c) : \A j \in Collected(i, c) : k <= j
\* c is ranked before d in window i: more notes, or as many and an earlier first note
RankedBefore(i, c, d) ==
    \/ Cardinality(Collected(i, c)) > Cardinality(Collected(i, d))
    \/ /\ Cardinality(Collected(i, c)) = Cardinality(Collected(i, d))
       /\ FirstCollected(i, c) < FirstCollected(i, d)
\* the pitch classes collected in window i
CollectedClasses(i) == {c \in PitchClasses : Collected(i, c) # {}}

\* C21: chord_pitches of a window of 0..W-1 with at least 3 collected notes
\* holds collected pitch classes only, each once, a class with more notes
\* before one with fewer and, among equals, the one whose first note comes
\* earlier in the start-sorted notes first; it has 6 elements, or all
\* classes when fewer than 6 were collected, and every class left out
\* ranks after every class kept.
C21_MostCommonSix ==
    LaidOut =>
        \A w \in LastWindow :
            LET P == window_log[w].chord_pitches  IN
            Len(window_log[w].window_notes) >= 3 =>
                /\ Len(P) = Min(6, Cardinality(CollectedClasses(w - 1)))
                /\ Range(P) \subseteq CollectedClasses(w - 1)
                /\ \A a, b \in 1..Len(P) :
                       a < b => P[a] # P[b] /\ RankedBefore(w - 1, P[a], P[b])
                /\ \A c \in CollectedClasses(w - 1) \ Range(P) :
                       \A a \in 1..Len(P) : RankedBefore(w - 1, P[a], c)

\* a window with more than 6 pitch classes, in which two kept classes have
\* as many notes and the one kept first is the higher pitch class
C21_Witness ==
    /\ Returned
    /\ all_notes # <<>>
    /\ \E w \in LastWindow :
           LET P == window_log[w].chord_pitches  IN
           /\ Cardinality(CollectedClasses(w - 1)) > 6
           /\ Len(P) = 6
           /\ \E a \in 1..5 :
                  /\ P[a] > P[a + 1]
                  /\ Cardinality(Collected(w - 1, P[a])) =
                         Cardinality(Collected(w - 1, P[a + 1]))
           /\ \E a \in 1..5 :
                  Cardinality(Collected(w - 1, P[a])) >
                      Cardinality(Collected(w - 1, P[a + 1]))


(***************************************************************************)
(* The order of the lookups of pitches_to_chord_name.                      *)
(***************************************************************************)
\* the name of the item whose key is the set of the first n pitches
NameMatching(p, n) ==
    chord_pattern_items[CHOOSE i \in ItemsMatching(p, n) : TRUE][2]

\* C22: on a non-empty list pitches_to_chord_name returns the name of the
\* item whose key is the set of the first 4 elements when there is one, also
\* when the set of the first 3 is a key too; else the name of the item whose
\* key is the set of the first 3 elements when there is one; else the root
\* label of the first element.  The result of a list longer than 4 is the
\* one its first 4 elements determine.
C22_FourBeforeThree ==
    (ResolveReturned /\ pitches # <<>>) =>
        /\ ItemsMatching(pitches, 4) # {} => chord_name = NameMatching(pitches, 4)
        /\ (ItemsMatching(pitches, 4) = {} /\ ItemsMatching(pitches, 3) # {})
               => chord_name = NameMatching(pitches, 3)
        /\ (ItemsMatching(pitches, 4) = {} /\ ItemsMatching(pitches, 3) = {})
               => chord_name = RootLabel(pitches[1])
        /\ Len(pitches) > 4 =>
               chord_name =
                   IF ItemsMatching(Take(pitches, 4), 4) # {}
                   THEN NameMatching(Take(pitches, 4), 4)
                   ELSE IF ItemsMatching(Take(pitches, 4), 3) # {}
                   THEN NameMatching(Take(pitches, 4), 3)
                   ELSE RootLabel(pitches[1])

\* a list of 7 elements whose first 3 are a triad, whose first 4 are a 7th
\* chord and whose last 4 are another 7th chord: the first 4 decide
C22_Witness ==
    /\ ResolveReturned
    /\ pitches = <<0, 4, 7, 10, 4, 7, 11>>
    /\ ItemsMatching(pitches, 3) # {}
    /\ NameMatching(pitches, 3) = "C"
    /\ chord_name = "C7"


(***************************************************************************)
(* The returned progression in terms of the windows.                       *)
(***************************************************************************)
\* the windows among the first n evaluated that resolved to a name no
\* earlier window resolved to
FirstProducers(n) ==
    {i \in 1..n :
        /\ window_log[i].chord_name # None
        /\ \A j \in 1..(i - 1) : window_log[j].chord_name # window_log[i].chord_name}

\* the k-th of a finite set of numbers, in increasing order
Kth(S, k) == CHOOSE i \in S : Cardinality({j \in S : j < i}) = k - 1

\* the names of the first limit windows of FirstProducers(n), in window order
FirstNames(n, limit) ==
    [k \in 1..Min(limit, Cardinality(FirstProducers(n))) |->
        window_log[Kth(FirstProducers(n), k)].chord_name]

\* C23: a returned progression is the names the windows resolved to, in
\* window order, each name at the place of the first window that produced
\* it, cut after the 8th name; the windows after the one that produced the
\* 8th name do not change it: the windows up to that one give the same
\* progression.
C23_FirstNamesInWindowOrder ==
    (Returned /\ ~error /\ all_notes # <<>>) =>
        /\ unique_chords = FirstNames(Len(window_log), MaxUniqueChords)
        /\ result = ReturnValue(FirstNames(Len(window_log), MaxUniqueChords))
        /\ Cardinality(FirstProducers(Len(window_log))) >= MaxUniqueChords =>
               LET last == Kth(FirstProducers(Len(window_log)), MaxUniqueChords)  IN
               unique_chords = FirstNames(last, MaxUniqueChords)

\* the 8th name was produced by a window before the last and a later window
\* produced a 9th name, which is not returned
C23_Witness ==
    /\ Returned
    /\ Len(unique_chords) = MaxUniqueChords
    /\ Cardinality(FirstProducers(Len(window_log))) > MaxUniqueChords
    /\ Kth(FirstProducers(Len(window_log)), MaxUniqueChords) < Len(window_log)
    /\ \E i \in 1..Len(window_log) :
           /\ window_log[i].chord_name \notin Range(unique_chords) \cup {None}


(***************************************************************************)
(* Which windows add a name to the returned progression.                   *)
(***************************************************************************)
\* evaluated window i added a name to the returned progression: it is the
\* first window that resolved to a name that was returned
AddsToken(i) ==
    /\ i \in FirstProducers(Len(window_log))
    /\ window_log[i].chord_name \in Range(unique_chords)

\* a window before window i resolved to the name of window i
AlreadyEmitted(i) ==
    /\ window_log[i].chord_name # None
    /\ \E j \in 1..(i - 1) : window_log[j].chord_name = window_log[i].chord_name

\* the names of the templates
TemplateNames == {chord_pattern_items[i][2] : i \in 1..Len(chord_pattern_items)}

\* window i collected at least 3 notes and resolved to a template name or to
\* the root label of its most frequent pitch class
ResolvesToName(i) ==
    /\ window_log[i].chord_pitches # <<>>
    /\ window_log[i].chord_name # None
    /\ \/ window_log[i].chord_name \in TemplateNames
       \/ window_log[i].chord_name = RootLabel(window_log[i].chord_pitches[1])

\* C28 as stated: every window with at least 3 collected notes resolves to
\* a name, and a window adds no name to the returned progression only if it
\* collected fewer than 3 notes or an earlier window resolved to its name.
C28_SilentOnlyIfFewOrEmitted ==
    (Returned /\ ~error /\ all_notes # <<>>) =>
        \A i \in 1..Len(window_log) :
            /\ Len(window_log[i].window_notes) >= MinWindowNotes => ResolvesToName(i)
            /\ ~AddsToken(i) =>
                   \/ Len(window_log[i].window_notes) < MinWindowNotes
                   \/ AlreadyEmitted(i)

\* C28 amended: every window with at least 3 collected notes resolves to a
\* name, whatever the number of its pitch classes; a window adds no name to
\* the returned progression only if it collected fewer than 3 notes, or an
\* earlier window resolved to its name, or earlier windows have added 8
\* names already; and a window in none of these cases adds its name.
C28_SilentOnlyIfFewEmittedOrFull ==
    (Returned /\ ~error /\ all_notes # <<>>) =>
        \A i \in 1..Len(window_log) :
            /\ Len(window_log[i].window_notes) >= MinWindowNotes => ResolvesToName(i)
            /\ Len(window_log[i].window_notes) < MinWindowNotes =>
                   window_log[i].chord_name = None
            /\ ~AddsToken(i) <=>
                   \/ Len(window_log[i].window_notes) < MinWindowNotes
                   \/ AlreadyEmitted(i)
                   \/ Cardinality(FirstProducers(i - 1)) >= MaxUniqueChords

\* a window of at least 3 notes resolved to a name that no earlier window
\* had produced, after earlier windows had added 8 names: it adds none
C28_Witness ==
    /\ Returned
    /\ Len(unique_chords) = MaxUniqueChords
    /\ \E i \in 1..Len(window_log) :
           /\ Len(window_log[i].window_notes) >= MinWindowNotes
           /\ ResolvesToName(i)
           /\ ~AlreadyEmitted(i)
           /\ Cardinality(FirstProducers(i - 1)) >= MaxUniqueChords
           /\ ~AddsToken(i)


(***************************************************************************)
(* The names that can be returned.                                         *)
(***************************************************************************)
\* the names the chord_patterns dict holds
TableNames == {self_chord_patterns[k] : k \in DOMAIN self_chord_patterns}

\* the key of the major triad on root r
MajorTriad(r) == {r, (r + 4) % 12, (r + 7) % 12}

\* C29: every name of every progression midi_to_chords returns, and every
\* name a window resolved to, is a name of the chord_patterns dict; a window
\* whose pitch classes match no template gets the root label of its first
\* pitch class, which is the name the dict gives the major triad on that
\* root.
C29_TokensAreTableNames ==
    /\ Range(unique_chords) \subseteq TableNames
    /\ \A i \in 1..Len(outcomes) : Range(outcomes[i].unique_chords) \subseteq TableNames
    /\ LaidOut =>
           \A w \in {Len(window_log)} \cap 1..Len(window_log) :
               LET P == window_log[w].chord_pitches  IN
               /\ window_log[w].chord_name \in TableNames \cup {None}
               /\ (P # <<>> /\ ItemsMatching(P, 4) = {} /\ ItemsMatching(P, 3) = {}) =>
                      /\ MajorTriad(P[1]) \in DOMAIN self_chord_patterns
                      /\ window_log[w].chord_name = self_chord_patterns[MajorTriad(P[1])]

\* a returned progression of at least two names, one of them the root label
\* of a black key from a window that matched no template
C29_Witness ==
    /\ Returned
    /\ \E w \in 1..Len(window_log) :
           LET P == window_log[w].chord_pitches  IN
           /\ P # <<>>
           /\ ItemsMatching(P, 4) = {} /\ ItemsMatching(P, 3) = {}
           /\ P[1] \in {1, 3, 6, 8, 10}
           /\ window_log[w].chord_name \in Range(unique_chords)
    /\ Len(unique_chords) >= 2


(***************************************************************************)
(* Both extractors: the names of a returned progression.                   *)
(***************************************************************************)
NoRepeats(seq) == \A i, j \in 1..Len(seq) : i # j => seq[i] # seq[j]

\* the windows of a log that resolved to a name no earlier window resolved to
FirstProducersOf(log) ==
    {i \in 1..Len(log) :
        /\ log[i].chord_name # None
        /\ \A j \in 1..(i - 1) : log[j].chord_name # log[i].chord_name}

\* their names in window order, up to limit of them
FirstNamesOf(log, limit) ==
    [k \in 1..Min(limit, Cardinality(FirstProducersOf(log))) |->
        log[Kth(FirstProducersOf(log), k)].chord_name]

SimpleReturned == spc = "returned"

\* C24: the progression ChordExtractor.midi_to_chords returns and the one
\* the simple extractor's midi_to_chords returns hold at most 8 names, no
\* name more than once, in the order in which the windows first produced
\* them.
C24_UniqueInBothExtractors ==
    /\ (Returned /\ ~error /\ all_notes # <<>>) =>
           /\ Len(unique_chords) <= 8
           /\ NoRepeats(unique_chords)
           /\ unique_chords = FirstNamesOf(window_log, 8)
           /\ result = ReturnValue(unique_chords)
    /\ (SimpleReturned /\ simple_notes # <<>>) =>
           LET returned == Take(simple_chords, 8)  IN
           /\ NoRepeats(returned)
           /\ returned = FirstNamesOf(simple_log, 8)
           /\ simple_result = Join(returned)

\* both extractors have returned; each had a window that produced a name
\* again after another name, and returned the name once
C24_Witness ==
    /\ Returned
    /\ SimpleReturned
    /\ \E i, j, k \in 1..Len(window_log) :
           /\ i < j /\ j < k
           /\ window_log[i].chord_name = window_log[k].chord_name
           /\ window_log[i].chord_name # None
           /\ window_log[j].chord_name \notin {None, window_log[i].chord_name}
    /\ \E i, j, k \in 1..Len(simple_log) :
           /\ i < j /\ j < k
           /\ simple_log[i].chord_name = simple_log[k].chord_name
           /\ simple_log[i].chord_name # None
           /\ simple_log[j].chord_name \notin {None, simple_log[i].chord_name}
    /\ Len(unique_chords) >= 2
    /\ simple_result # ""

(***************************************************************************)
(* The window test as an overlap of intervals.                             *)
(***************************************************************************)
\* [start, end) of the note meets [t_i, t_i + S) of window i of ChordExtractor
Overlaps(note, i) ==
    /\ note.start * num_windows < (i + 1) * song_length
    /\ note.end * num_windows > i * song_length

\* [start, end) of the note meets [t, t + 2) of a window of the simple extractor
SimpleOverlaps(note, t) ==
    /\ note.start < t + simple_window_size
    /\ note.end > t

\* the notes a window is expected to collect: those with end > start that
\* overlap it, and of the others those that pass the test
Expected(i) ==
    {k \in 1..Len(all_notes) :
        IF all_notes[k].end > all_notes[k].start
        THEN Overlaps(all_notes[k], i)
        ELSE SoundsAt(all_notes[k], i) \/ StartsIn(all_notes[k], i)}

SimpleExpected(t) ==
    {k \in 1..Len(simple_notes) :
        IF simple_notes[k].end > simple_notes[k].start
        THEN SimpleOverlaps(simple_notes[k], t)
        ELSE simple_in_window(simple_notes[k], t)}

\* C27: a note with end > start passes the window test exactly when
\* [start, end) meets [t, t + S): start < t + S and end > t.  In every
\* window of either extractor each pitch class is collected once for every
\* such note of that pitch class (and once for every note with end <= start
\* that passes the test).
C27_TestIsIntervalOverlap ==
    /\ LaidOut =>
           \A w \in LastWindow :
               /\ \A k \in 1..Len(all_notes) :
                      all_notes[k].end > all_notes[k].start =>
                          (SoundsAt(all_notes[k], w - 1) \/ StartsIn(all_notes[k], w - 1))
                              <=> Overlaps(all_notes[k], w - 1)
               /\ \A c \in PitchClasses :
                      Occurrences(window_log[w].window_notes, c) =
                          Cardinality({k \in Expected(w - 1) : all_notes[k].pitch % 12 = c})
    /\ simple_log # <<>> =>
           LET last == simple_log[Len(simple_log)]  IN
           \A c \in PitchClasses :
               Occurrences(last.window_notes, c) =
                   Cardinality({k \in SimpleExpected(last.time) :
                                   simple_notes[k].pitch % 12 = c})

\* in the last window of each extractor a note ends at the window's start
\* and is not collected, a note that began earlier is collected, a note
\* that starts in the window is collected, and the recording has a note of
\* length zero
C27_Witness ==
    /\ LaidOut
    /\ LastWindow # {}
    /\ simple_log # <<>>
    /\ \E a, b, c \in 1..Len(all_notes) :
           LET i == Len(window_log) - 1  IN
           /\ all_notes[a].end * num_windows = i * song_length
           /\ all_notes[a].end > all_notes[a].start
           /\ all_notes[b].start * num_windows < i * song_length
           /\ Overlaps(all_notes[b], i)
           /\ all_notes[c].start * num_windows >= i * song_length
           /\ Overlaps(all_notes[c], i)
    /\ \E z \in 1..Len(all_notes) : all_notes[z].end = all_notes[z].start
    /\ \E a, b, c \in 1..Len(simple_notes) :
           LET t == simple_log[Len(simple_log)].time  IN
           /\ simple_notes[a].end = t
           /\ simple_notes[a].end > simple_notes[a].start
           /\ simple_notes[b].start < t
           /\ SimpleOverlaps(simple_notes[b], t)
           /\ simple_notes[c].start >= t
           /\ SimpleOverlaps(simple_notes[c], t)


(***************************************************************************)
(* The website's tab lines.                                                *)
(***************************************************************************)
\* the place of a labelled string in a 'frets' list, which runs low E, A,
\* D, G, B, high e
FretsIndex(label) ==
    CASE label = "E" -> 1 [] label = "A" -> 2 [] label = "D" -> 3
      [] label = "G" -> 4 [] label = "B" -> 5 [] label = "e" -> 6

TabReturned == tpc = "returned"

\* C25: every string line of a returned tab shows, for each displayed chord
\* that has a pattern, the fret the pattern's 'frets' list gives the string
\* of the line's label: for C the line of e shows 0 and the line of E
\* shows X.
C25_LineShowsFretOfItsString ==
    (TabReturned /\ tab_chords # <<>>) =>
        \A l \in 1..Len(tab_lines) : \A i \in 1..Len(display_chords) :
            display_chords[i] \in DOMAIN website_chord_tab_patterns =>
                tab_lines[l].cells[i] =
                    FretCell(website_chord_tab_patterns[display_chords[i]]
                                 [FretsIndex(tab_lines[l].label)])


(***************************************************************************)
(* The simplified progression of an annotation.                            *)
(***************************************************************************)
\* the labels of the entries whose label no earlier entry has, in order
FirstLabels ==
    LET firsts == {i \in 1..Len(annotation) :
                      \A j \in 1..(i - 1) : annotation[j].chord # annotation[i].chord}
    IN  [k \in 1..Cardinality(firsts) |-> annotation[Kth(firsts, k)].chord]

McGillReturned == mpc = "returned"

\* C26: the sequence get_simplified_chord_progression returns holds every
\* chord label of the annotation once, at the place of its first entry.
C26_EachLabelOnce ==
    McGillReturned =>
        /\ NoRepeats(chord_sequence)
        /\ chord_sequence = FirstLabels
        /\ simplified = JoinBar(FirstLabels)


(***************************************************************************)
(* The counters of analyze_tab_potential.                                  *)
(***************************************************************************)
\* the stored progressions whose chords all have a pattern and whose
\* difficulty is the given one
CompleteOf(difficulty) ==
    {i \in 1..Len(progressions) :
        /\ \A k \in 1..Len(progressions[i]) : progressions[i][k] \in DOMAIN chord_tab_patterns
        /\ assess_difficulty(progressions[i]) = difficulty}

\* C30: analyze_tab_potential raises nothing, whatever progressions are
\* stored; when it has returned, total_songs = can_create_tabs +
\* partial_tabs + no_tabs, and beginner_friendly, intermediate and advanced
\* count the progressions of can_create_tabs by the difficulty
\* _assess_difficulty gives them.
C30_AnalysisCompletesAndAddsUp ==
    /\ apc # "raised"
    /\ raised = None
    /\ apc = "returned" =>
           /\ tab_stats.total_songs = Len(progressions)
           /\ tab_stats.total_songs =
                  tab_stats.can_create_tabs + tab_stats.partial_tabs + tab_stats.no_tabs
           /\ tab_stats.can_create_tabs =
                  tab_stats.beginner_friendly + tab_stats.intermediate + tab_stats.advanced
           /\ tab_stats.beginner_friendly = Cardinality(CompleteOf("Beginner"))
           /\ tab_stats.intermediate = Cardinality(CompleteOf("Intermediate"))
           /\ tab_stats.advanced = Cardinality(CompleteOf("Advanced"))

=============================================================================
